---- MODULE Spec2Model ----
(***************************************************************************)
(* Session-based browser automation and publishing engine of abk_BE.       *)
(*                                                                         *)
(* PlaywrightAuthService.publishToNaverBlog / publishToTistory and the     *)
(* login helpers performNaverLogin / performTistoryLogin are modelled as   *)
(* one sequential process whose position is pc: every step is one group of *)
(* awaits of the source between two observable decisions.  What the live   *)
(* web site answers (redirects, selectors that resolve or not, thrown      *)
(* Playwright errors) is the environment and is drawn with \E.             *)
(* Browser.close() and BrowserContext.close() are taken to release the     *)
(* resource when they are called.                                          *)
(*                                                                         *)
(* BrowserlessService (remote interactive sessions), MediaController and   *)
(* MediaService.updateCookies are modelled as atomic request handlers.     *)
(***************************************************************************)
EXTENDS Integers, FiniteSets, Sequences, TLC

(* ------------------------------ bounds --------------------------------- *)
MaxCalls == 2
MaxSessions == 2
MaxJar == 2
MaxCookies == 2
MaxOps == 2
MaxWriters == 2
MaxAttempts == 6
MaxCallers == 2
MaxPublishes == 2
MaxRequests == 2
MaxText == 2
MaxLinks == 2

(* ------------------------- publish: variables -------------------------- *)
VARIABLES
  pc,                 \* position of the publish call
  platform,           \* "naver" (publishToNaverBlog) or "tistory" (publishToTistory)
  credentials,        \* TRUE iff username and password were both supplied
  blogUrl,            \* tistory: "valid" iff blogUrl matches https://<name>.tistory.com
  browser,            \* local `browser`: "none" (null), "open", "closed"
  context,            \* local `context`: "none" (null), "open", "closed"
  browsersOpened, browsersClosed, contextsOpened, contextsClosed,
  cookies,            \* argument `cookies`: the stored jar handed to the call
  sessionExpired,     \* the login check after the first navigation found a login URL
  ctxJar,             \* cookie jar held by the browser context (0 = no jar yet)
  currentCookies,     \* naver: parameter `cookies`; tistory: local `currentCookies`
  currentUrl,         \* class of page.url() after the last navigation
  reloginAttempts,    \* calls of performNaverLogin / performTistoryLogin in this call
  writeNavsAfterRelogin, \* navigations to the authoring page after the re-login
  loginState,         \* state of the login helper
  loginSubmits,       \* credential submissions by the login helper in this call
  loginNavs,          \* navigations / clicks done by the login helper in this call
  titleResolved,      \* "unknown", "yes", "no": did any title selector resolve
  typed,              \* content was typed / filled into the editor
  submitted,          \* the submission control was activated
  publishClicked,     \* local `publishClicked`
  finalUrl,           \* observation of page.url() after submission
  postIdFromUrl,      \* a post id was read from the post-submission URL
  postId,             \* local `postId` is non-empty
  result,             \* value returned by the call (NoResult while running)
  calls               \* publish calls started so far

(* ------------------------- remote sessions ----------------------------- *)
VARIABLES
  sessions,           \* BrowserlessService.sessions : session id -> session or NoSession
  connections,        \* media_connections rows, keyed by <<projectId, platform>>
  nextSession         \* number of sessions started (source of session ids)

pubVars == <<pc, platform, credentials, blogUrl, cookies, sessionExpired, browser, context,
             browsersOpened, browsersClosed, contextsOpened, contextsClosed,
             ctxJar, currentCookies, currentUrl, reloginAttempts,
             writeNavsAfterRelogin, loginState, loginSubmits, loginNavs,
             titleResolved, typed, submitted, publishClicked, finalUrl,
             postIdFromUrl, postId, result, calls>>
remVars == <<sessions, connections, nextSession>>

(* --------------------- stored cookie strings --------------------------- *)
VARIABLES
  capturedJar,        \* the cookie jar of the browser context the string came from
  jarKnown,           \* the stored string is a serialization of capturedJar
  accessToken,        \* MediaConnection.accessToken: the stored cookie string
  tokenPlatform,      \* MediaConnection.platform of that record
  tokenStatus,        \* MediaConnection.status of that record ("none": no record)
  cookieArray,        \* publish: result of parseCookieString
  addCookiesCalled,   \* publish: context.addCookies(cookieArray) was called
  cookieHeader        \* testConnectionWithCookies: the Cookie header last sent

ckVars == <<capturedJar, jarKnown, accessToken, tokenPlatform, tokenStatus, cookieArray,
            addCookiesCalled, cookieHeader>>

(* ------------------ browser processes of the service ------------------- *)
VARIABLES
  thisBrowser,        \* PlaywrightAuthService.browser: "null", "connected", "disconnected"
  running             \* operations in flight: slot -> operation, browser used, step

brVars == <<thisBrowser, running>>

(* ------------------- the media_connections table ----------------------- *)
VARIABLES
  mediaConnections,   \* rows of media_connections: set of [id, key = <<projectId, platform>>]
  nextId,             \* rows inserted so far (source of row ids)
  writers             \* createOrUpdate / updateCookies calls between findOne and save

recVars == <<mediaConnections, nextId, writers>>

(* ------------- health fields of one connection record ------------------ *)
VARIABLES
  attempts,           \* verification and publish attempts made so far (the clock)
  connection,         \* the record: status, lastCheckedAt (0 = never), lastError
  lastAttempt         \* kind and error of the latest attempt

hlVars == <<attempts, connection, lastAttempt>>

(* -------------------- a job of the publish queue ----------------------- *)
VARIABLES
  jobState,           \* "none", "waiting", "completed", "failed"
  attemptsMade,       \* Job.attemptsMade: runs of PublishProcessor.process that threw
  jobOutcomes         \* outcome of every run of the job, in order

qVars == <<jobState, attemptsMade, jobOutcomes>>

(* ----------- one interactive session and the calls on it --------------- *)
VARIABLES
  liveSession,        \* the session: in the map?, past the timeout?, context, browser
  callers,            \* closeSession / saveCookies calls in flight, each at an await
  sweeper,            \* cleanupExpiredSessions: the await it is at
  unhandledRejection  \* an error escaped a handler

seVars == <<liveSession, callers, sweeper, unhandledRejection>>

(* ------- PublishService.publish and the rows it reads and writes ------- *)
VARIABLES
  contentRow,         \* the contents row of the content item being published
  mediaRows,          \* media_connections rows: <<projectId, platform>> -> row or NoRow
  publishLog,         \* publish_logs row created by each publish call ("none": no row)
  publishCall,        \* PublishService.publish calls: position, arguments and locals
  requests            \* createOrUpdate / testConnection / updateCookies requests so far

svVars == <<contentRow, mediaRows, publishLog, publishCall, requests>>

(* ------------- encrypted columns of one connection row ----------------- *)
VARIABLES
  encryptionKey,      \* module variable encryptionKey: NoKey (null) or the key
  columnName,         \* the column last saved: "password" or "accessToken"
  column,             \* what the table holds in that column
  assigned,           \* the value assigned to the entity field and saved
  loaded              \* the entity field after the last load of the row

encVars == <<encryptionKey, columnName, column, assigned, loaded>>

(* --------------- publishToTistory: the blog it writes on --------------- *)
VARIABLES
  tiPc,               \* position of the publishToTistory call
  blogName,           \* local blogName: the blog named by the blogUrl argument
  writeLinks,         \* blogs of the "write" links in the account layer, in page order
  actualBlogName,     \* local actualBlogName
  writeUrlBlog,       \* blog in the constant writeUrl
  authoringBlog,      \* blog whose authoring page the page was last sent to
  submittedOn,        \* blog on whose authoring page the content was submitted
  postUrlBlog         \* blog named in the returned postUrl

tiVars == <<tiPc, blogName, writeLinks, actualBlogName, writeUrlBlog, authoringBlog,
            submittedOn, postUrlBlog>>

oldVars == <<pubVars, remVars, ckVars, brVars, recVars, hlVars, qVars, seVars>>
laterVars == <<svVars, encVars, tiVars>>
nonPubVars == <<remVars, ckVars, brVars, recVars, hlVars, qVars, seVars, laterVars>>
nonRemVars == <<pubVars, ckVars, brVars, recVars, hlVars, qVars, seVars, laterVars>>
nonCkVars == <<pubVars, remVars, brVars, recVars, hlVars, qVars, seVars, laterVars>>
nonBrVars == <<pubVars, remVars, ckVars, recVars, hlVars, qVars, seVars, laterVars>>
nonRecVars == <<pubVars, remVars, ckVars, brVars, hlVars, qVars, seVars, laterVars>>
nonHlVars == <<pubVars, remVars, ckVars, brVars, recVars, qVars, seVars, laterVars>>
nonQVars == <<pubVars, remVars, ckVars, brVars, recVars, hlVars, seVars, laterVars>>
nonSeVars == <<pubVars, remVars, ckVars, brVars, recVars, hlVars, qVars, laterVars>>
nonSvVars == <<oldVars, encVars, tiVars>>
nonEncVars == <<oldVars, svVars, tiVars>>
nonTiVars == <<oldVars, svVars, encVars>>
vars == <<oldVars, laterVars>>

(* ------------------------------ values --------------------------------- *)
Platforms == {"naver", "tistory"}

\* newCookies / cookie jar absent (undefined); jars are numbered from 1
NoCookies == 0

\* classes of page.url() while reaching the authoring page
NavUrls(p) ==
  IF p = "naver" THEN {"login", "editor"}
  ELSE {"tistoryLogin", "kakaoLogin", "editor", "error", "other"}

\* classes of page.url() after the submission; "" is the value the source
\* keeps when page.url() throws
FinalUrls(p) ==
  IF p = "naver" THEN {"", "write", "writeLogNo", "postView", "home"}
  ELSE {"unreadable", "newpost", "newpostId", "managePosts", "entry", "home"}

NoResult == [returned |-> FALSE, success |-> FALSE, error |-> "none",
             postUrl |-> "absent", postId |-> FALSE, newCookies |-> NoCookies]

Failure(e) == [returned |-> TRUE, success |-> FALSE, error |-> e,
               postUrl |-> "absent", postId |-> FALSE, newCookies |-> NoCookies]

(* --------------------- conditions of the source ------------------------ *)
\* currentUrl.includes('nidlogin') || currentUrl.includes('login')             (naver)
\* currentUrl.includes('auth/login') || currentUrl.includes('kakao') || ...    (tistory)
IsLoginUrl(u) == u \in {"login", "tistoryLogin", "kakaoLogin"}

\* variant: the credentials are taken to be on file without looking
HasCredentials_Always(c) == TRUE

\* !credentials?.username || !credentials?.password  /  !username || !password
HasCredentials(c) == c

\* currentUrl.includes('/manage/newpost') || currentUrl.includes('/manage/post')
IsAuthoringUrl(u) == u = "editor"

\* currentUrl.includes('error') || currentUrl.includes('404')
IsErrorUrl(u) == u = "error"

\* finalUrl.match(/logNo=(\d+)/)   /   finalUrl.match(/\/(\d+)(?:\?|$)/)
UrlHasPostId(f) == f \in {"writeLogNo", "postView", "newpostId", "entry"}

\* naver: !finalUrl.includes('Write') && !finalUrl.includes('Redirect')
NaverPublishSuccess(f) == f \notin {"write", "writeLogNo"}

\* tistory: left the authoring URL, or a /manage/(posts|category|statistics)
\* URL, and otherwise publishSuccess = publishClicked
TistoryPublishSuccess(f, clicked) ==
  IF f \notin {"newpost", "newpostId"} THEN TRUE ELSE clicked

\* naver: postId ? `https://blog.naver.com/${blogId}/${postId}` : finalUrl
NaverPostUrl(pid, f) ==
  IF pid THEN "built" ELSE IF f = "" THEN "empty" ELSE "final"

\* tistory: postId && blogName ? `https://${blogName}.tistory.com/${postId}` : finalUrl
TistoryPostUrl(pid, f) == IF pid THEN "built" ELSE "final"

\* classification of the page after the credentials were submitted (naver)
NaverLoginOutcome(obs) ==
  CASE obs = "captcha"      -> "CAPTCHA"
    [] obs = "secondFactor" -> "SECOND_FACTOR"
    [] obs = "errorMessage" -> "CREDENTIAL_REJECTED"
    [] obs = "stillLogin"   -> "CREDENTIAL_REJECTED"
    [] OTHER                -> "AUTHENTICATED"

\* classification of the page after the credentials were submitted (tistory)
TistoryLoginOutcome(obs) ==
  CASE obs = "errorMessage"      -> "CREDENTIAL_REJECTED"
    [] obs = "secondFactor"      -> "SECOND_FACTOR"
    [] obs = "stillLogin"        -> "CREDENTIAL_REJECTED"
    [] obs = "stillTistoryLogin" -> "FAILED"
    [] OTHER                     -> "AUTHENTICATED"

LoginObservations(p) ==
  IF p = "naver"
  THEN {"captcha", "secondFactor", "errorMessage", "stillLogin", "loggedIn"}
  ELSE {"errorMessage", "secondFactor", "stillLogin", "stillTistoryLogin", "loggedIn"}

ChallengeStates == {"CAPTCHA", "SECOND_FACTOR"}
LoginFailureStates == ChallengeStates \cup {"CREDENTIAL_REJECTED", "FAILED"}

(* ------------------------ variable groups ------------------------------ *)
gIn    == <<platform, credentials, blogUrl, cookies, calls>>
gOpen  == <<browsersOpened, contextsOpened>>
gRes   == <<browser, context, browsersClosed, contextsClosed>>
gJar   == <<ctxJar, currentCookies>>
gLogin == <<sessionExpired, reloginAttempts, writeNavsAfterRelogin, loginState,
           loginSubmits, loginNavs>>
gEdit  == <<titleResolved, typed, submitted, publishClicked, finalUrl, postIdFromUrl, postId>>

(* ------------------------ resource release ----------------------------- *)
\* try { await context?.close(); } catch { /* ignore */ }
CloseContext ==
  /\ context' = IF context = "none" THEN "none" ELSE "closed"
  /\ contextsClosed' = IF context = "open" THEN contextsClosed + 1 ELSE contextsClosed

\* try { await browser?.close(); } catch { /* ignore */ }
CloseBrowser ==
  /\ browser' = IF browser = "none" THEN "none" ELSE "closed"
  /\ browsersClosed' = IF browser = "open" THEN browsersClosed + 1 ELSE browsersClosed

Return(r) == pc' = "done" /\ result' = r

\* naver early return: both closes, then return
ReturnClosed(r) == CloseContext /\ CloseBrowser /\ Return(r)

\* tistory early return: `await context.close(); return {...}`
ReturnContextClosed(r) ==
  CloseContext /\ UNCHANGED <<browser, browsersClosed>> /\ Return(r)

\* early return of the call, by platform
EarlyReturn(r) ==
  IF platform = "naver" THEN ReturnClosed(r) ELSE ReturnContextClosed(r)

\* the outer catch block of both publish methods
CatchError ==
  /\ CloseContext /\ CloseBrowser
  /\ Return(Failure("INFRASTRUCTURE"))

\* an awaited Playwright call throws; nothing else of the step takes effect
Throws ==
  /\ CatchError
  /\ UNCHANGED <<gIn, gOpen, gJar, gLogin, gEdit, currentUrl>>

(* ------------------------------ Init ----------------------------------- *)
InitPublish ==
  /\ pc = "idle" /\ platform = "naver" /\ credentials = FALSE /\ blogUrl = "valid"
  /\ cookies = NoCookies /\ sessionExpired = FALSE
  /\ browser = "none" /\ context = "none"
  /\ browsersOpened = 0 /\ browsersClosed = 0
  /\ contextsOpened = 0 /\ contextsClosed = 0
  /\ ctxJar = NoCookies /\ currentCookies = NoCookies /\ currentUrl = "blank"
  /\ reloginAttempts = 0 /\ writeNavsAfterRelogin = 0
  /\ loginState = "NOT_AUTHENTICATED" /\ loginSubmits = 0 /\ loginNavs = 0
  /\ titleResolved = "unknown" /\ typed = FALSE /\ submitted = FALSE
  /\ publishClicked = FALSE /\ finalUrl = "none" /\ postIdFromUrl = FALSE
  /\ postId = FALSE /\ result = NoResult /\ calls = 0

(* --------------------- publish: entry and resources -------------------- *)
\* a caller invokes publishToNaverBlog / publishToTistory
StartPublish ==
  /\ UNCHANGED nonPubVars
  /\ pc = "idle" /\ calls < MaxCalls
  /\ \E p \in Platforms, c \in BOOLEAN, b \in {"valid", "invalid"}, jar \in 1..MaxJar :
       /\ platform' = p /\ credentials' = c
       /\ blogUrl' = IF p = "tistory" THEN b ELSE "valid"
       /\ cookies' = jar /\ currentCookies' = jar
  /\ calls' = calls + 1
  /\ pc' = "launch"
  /\ UNCHANGED <<gOpen, gRes, ctxJar, currentUrl, gLogin, gEdit, result>>

\* browser = await this.createFreshBrowser()
CreateFreshBrowser ==
  /\ UNCHANGED nonPubVars
  /\ pc = "launch"
  /\ \/ /\ browser' = "open" /\ browsersOpened' = browsersOpened + 1
        /\ pc' = "newContext"
        /\ UNCHANGED <<gIn, context, contextsOpened, browsersClosed, contextsClosed,
                       gJar, gLogin, gEdit, currentUrl, result>>
     \/ Throws

\* context = await browser.newContext(...)
NewContext ==
  /\ UNCHANGED nonPubVars
  /\ pc = "newContext"
  /\ \/ /\ context' = "open" /\ contextsOpened' = contextsOpened + 1
        /\ pc' = "addCookies"
        /\ UNCHANGED <<gIn, browser, browsersOpened, browsersClosed, contextsClosed,
                       gJar, gLogin, gEdit, currentUrl, result>>
     \/ Throws

\* parseCookieString, context.addCookies(cookieArray), context.newPage();
\* tistory then extracts blogName from blogUrl and returns when it is empty
AddCookies ==
  /\ UNCHANGED nonPubVars
  /\ pc = "addCookies"
  /\ \/ /\ ctxJar' = currentCookies
        /\ IF platform = "tistory" /\ blogUrl = "invalid"
           THEN /\ ReturnClosed(Failure("MISSING_TARGET"))
           ELSE /\ pc' = IF platform = "tistory" THEN "gotoMain" ELSE "gotoWrite"
                /\ UNCHANGED <<gRes, result>>
        /\ UNCHANGED <<gIn, gOpen, currentCookies, gLogin, gEdit, currentUrl>>
     \/ Throws

\* tistory: page.goto('https://www.tistory.com/') and the account layer probe
GotoMain ==
  /\ UNCHANGED nonPubVars
  /\ pc = "gotoMain"
  /\ \/ /\ pc' = "gotoWrite"
        /\ currentUrl' = "other"
        /\ UNCHANGED <<gIn, gOpen, gRes, gJar, gLogin, gEdit, result>>
     \/ Throws

(* ------------------ publish: reaching the authoring page --------------- *)
\* variant: the login check is repeated after the re-login (retry loop)
AfterWriteNav_Loop(p, u, c, n) ==
  IF ~IsLoginUrl(u) THEN "proceed"
  ELSE IF ~HasCredentials(c) THEN "expired"
  ELSE "relogin"

\* what the call does with the URL reached by a navigation to the authoring
\* page; n is the number of re-logins already made in this call
AfterWriteNav(p, u, c, n) ==
  IF ~IsLoginUrl(u) THEN "proceed"
  ELSE IF n > 0 THEN (IF p = "naver" THEN "notKept" ELSE "proceed")
  ELSE IF ~HasCredentials(c) THEN "expired"
  ELSE "relogin"

\* effect of the decision taken after a navigation to the authoring page
ApplyWriteNav(d) ==
  CASE d = "expired" ->
         /\ EarlyReturn(Failure("SESSION_EXPIRED"))
         /\ UNCHANGED <<reloginAttempts, currentCookies>>
    [] d = "notKept" ->
         /\ ReturnClosed(Failure("REAUTH_NOT_KEPT"))
         /\ UNCHANGED <<reloginAttempts, currentCookies>>
    [] d = "relogin" ->
         /\ reloginAttempts' = reloginAttempts + 1
         /\ pc' = "loginEnter"
         /\ UNCHANGED <<gRes, result, currentCookies>>
    [] OTHER ->
         /\ pc' = IF platform = "naver" THEN "editor" ELSE "arrival"
         \* naver after a re-login: cookies = JSON.stringify(await context.cookies())
         /\ currentCookies' = IF platform = "naver" /\ reloginAttempts > 0
                              THEN ctxJar ELSE currentCookies
         /\ UNCHANGED <<gRes, result, reloginAttempts>>

\* page.goto(<authoring page>), wait, currentUrl = page.url(), login check
GotoWrite ==
  /\ UNCHANGED nonPubVars
  /\ pc = "gotoWrite"
  /\ \/ \E u \in NavUrls(platform) :
          /\ currentUrl' = u
          /\ sessionExpired' = IsLoginUrl(u)
          /\ ApplyWriteNav(AfterWriteNav(platform, u, credentials, reloginAttempts))
          /\ UNCHANGED <<gIn, gOpen, ctxJar, writeNavsAfterRelogin, loginState,
                         loginSubmits, loginNavs, gEdit>>
     \/ Throws

(* --------------------------- login helpers ----------------------------- *)
\* the helper's own catch block: return { success: false, error: `재로그인 실패: ...` }
LoginThrows ==
  /\ loginState' = "FAILED" /\ pc' = "afterLogin"
  /\ UNCHANGED <<gIn, gOpen, gRes, gJar, sessionExpired, reloginAttempts,
                 writeNavsAfterRelogin, loginSubmits, loginNavs, gEdit, currentUrl, result>>

\* performNaverLogin: goto the login page unless already there;
\* performTistoryLogin: reach accounts.kakao.com through the Kakao login button
LoginEnter ==
  /\ UNCHANGED nonPubVars
  /\ pc = "loginEnter"
  /\ \/ /\ platform = "naver" \/ currentUrl = "kakaoLogin"
        /\ loginState' = "NOT_AUTHENTICATED"
        /\ pc' = "loginSubmit"
        /\ UNCHANGED <<gIn, gOpen, gRes, gJar, sessionExpired, reloginAttempts, writeNavsAfterRelogin,
                       loginSubmits, loginNavs, gEdit, currentUrl, result>>
     \/ /\ platform = "tistory" /\ currentUrl # "kakaoLogin"
        /\ \E kakaoLoginClicked \in BOOLEAN :
             IF kakaoLoginClicked
             THEN /\ loginNavs' = loginNavs + 1
                  /\ currentUrl' = "kakaoLogin"
                  /\ loginState' = "NOT_AUTHENTICATED"
                  /\ pc' = "loginSubmit"
             ELSE /\ loginState' = "FAILED"
                  /\ pc' = "afterLogin"
                  /\ UNCHANGED <<loginNavs, currentUrl>>
        /\ UNCHANGED <<gIn, gOpen, gRes, gJar, sessionExpired, reloginAttempts, writeNavsAfterRelogin,
                       loginSubmits, gEdit, result>>
     \/ /\ platform = "tistory" /\ currentUrl # "kakaoLogin"
        /\ LoginThrows

\* fill the account and the password, activate the login control
LoginSubmit ==
  /\ UNCHANGED nonPubVars
  /\ pc = "loginSubmit"
  /\ \/ /\ loginSubmits' = loginSubmits + 1
        /\ loginState' = "SUBMITTING_CREDENTIALS"
        /\ pc' = "loginClassify"
        /\ UNCHANGED <<gIn, gOpen, gRes, gJar, sessionExpired, reloginAttempts, writeNavsAfterRelogin,
                       loginNavs, gEdit, currentUrl, result>>
     \/ LoginThrows

\* state the helper is left in by the classification of the page
LoginNext(p, obs) ==
  IF p = "naver" THEN NaverLoginOutcome(obs) ELSE TistoryLoginOutcome(obs)

\* variant: a rejected login is submitted again instead of being returned
LoginContinuation_Retry(st) ==
  IF st = "CREDENTIAL_REJECTED" THEN "loginSubmit" ELSE "afterLogin"

\* every classification ends in a `return`: control goes back to the caller
LoginContinuation(st) == "afterLogin"

\* wait, read page.url(), classify the outcome and return it to the caller
LoginClassify ==
  /\ UNCHANGED nonPubVars
  /\ pc = "loginClassify"
  /\ \/ \E obs \in LoginObservations(platform) :
          /\ loginState' = LoginNext(platform, obs)
          /\ ctxJar' = IF obs = "loggedIn" THEN ctxJar + 1 ELSE ctxJar
          /\ currentUrl' = IF obs = "loggedIn" THEN "other" ELSE currentUrl
          /\ pc' = LoginContinuation(LoginNext(platform, obs))
          /\ UNCHANGED <<gIn, gOpen, gRes, currentCookies, sessionExpired, reloginAttempts,
                         writeNavsAfterRelogin, loginSubmits, loginNavs, gEdit, result>>
     \/ LoginThrows

\* the caller's handling of reloginResult / reAuthResult
AfterLogin ==
  /\ UNCHANGED nonPubVars
  /\ pc = "afterLogin"
  /\ \/ /\ loginState # "AUTHENTICATED"
        /\ EarlyReturn(Failure("REAUTH_FAILED"))
        /\ UNCHANGED <<gIn, gOpen, gJar, gLogin, gEdit, currentUrl>>
     \/ /\ loginState = "AUTHENTICATED"
        \* tistory: currentCookies = reAuthResult.cookies; clearCookies; addCookies;
        \* goto www.tistory.com; account layer probe
        /\ currentCookies' = IF platform = "tistory" THEN ctxJar ELSE currentCookies
        /\ pc' = "regotoWrite"
        /\ UNCHANGED <<gIn, gOpen, gRes, ctxJar, gLogin, gEdit, currentUrl, result>>
     \/ /\ loginState = "AUTHENTICATED" /\ platform = "tistory"
        /\ Throws

\* page.goto(<authoring page>) after the re-login
RegotoWrite ==
  /\ UNCHANGED nonPubVars
  /\ pc = "regotoWrite"
  /\ \/ \E u \in NavUrls(platform) :
          /\ currentUrl' = u
          /\ writeNavsAfterRelogin' = writeNavsAfterRelogin + 1
          /\ ApplyWriteNav(AfterWriteNav(platform, u, credentials, reloginAttempts))
          /\ UNCHANGED <<gIn, gOpen, ctxJar, sessionExpired, loginState, loginSubmits,
                         loginNavs, gEdit>>
     \/ Throws

\* tistory: the arrival check `!currentUrl.includes('/manage/newpost') && ...`
Arrival ==
  /\ UNCHANGED nonPubVars
  /\ pc = "arrival"
  /\ IF IsAuthoringUrl(currentUrl)
     THEN pc' = "title" /\ UNCHANGED <<gRes, result>>
     ELSE IF IsErrorUrl(currentUrl)
     THEN ReturnContextClosed(Failure("PAGE_INACCESSIBLE"))
     ELSE pc' = "arrivalRetry" /\ UNCHANGED <<gRes, result>>
  /\ UNCHANGED <<gIn, gOpen, gJar, gLogin, gEdit, currentUrl>>

\* tistory: page.goto(writeUrl) once more and the second arrival check
ArrivalRetry ==
  /\ UNCHANGED nonPubVars
  /\ pc = "arrivalRetry"
  /\ \/ \E u \in NavUrls(platform) :
          /\ currentUrl' = u
          /\ writeNavsAfterRelogin' =
               IF reloginAttempts > 0 THEN writeNavsAfterRelogin + 1
               ELSE writeNavsAfterRelogin
          /\ IF IsAuthoringUrl(u)
             THEN pc' = "title" /\ UNCHANGED <<gRes, result>>
             ELSE ReturnContextClosed(Failure("PAGE_INACCESSIBLE"))
          /\ UNCHANGED <<gIn, gOpen, gJar, sessionExpired, reloginAttempts, loginState,
                         loginSubmits, loginNavs, gEdit>>
     \/ Throws

(* ------------------------- publish: the editor ------------------------- *)
\* naver: waitForSelector('iframe'), popups, page.$('iframe'), contentFrame()
Editor ==
  /\ UNCHANGED nonPubVars
  /\ pc = "editor"
  /\ \/ /\ \E frameFound \in BOOLEAN :
             IF frameFound
             THEN pc' = "title" /\ UNCHANGED <<gRes, result>>
             ELSE ReturnClosed(Failure("ELEMENT_NOT_FOUND"))
        /\ UNCHANGED <<gIn, gOpen, gJar, gLogin, gEdit, currentUrl>>
     \/ Throws

\* what the call does when the title strategies are exhausted
\* naver: logs a warning and types anyway; tistory: returns the failure
TitleStop(p, resolved) == p = "tistory" /\ ~resolved

\* the cascade of title selectors, then the title text is entered
Title ==
  /\ UNCHANGED nonPubVars
  /\ pc = "title"
  /\ \/ \E resolved \in BOOLEAN :
          /\ titleResolved' = IF resolved THEN "yes" ELSE "no"
          /\ IF TitleStop(platform, resolved)
             THEN /\ ReturnContextClosed(Failure("ELEMENT_NOT_FOUND"))
                  /\ UNCHANGED typed
             ELSE /\ typed' = TRUE
                  /\ pc' = "body"
                  /\ UNCHANGED <<gRes, result>>
          /\ UNCHANGED <<gIn, gOpen, gJar, gLogin, submitted, publishClicked,
                         finalUrl, postIdFromUrl, postId, currentUrl>>
     \/ Throws

\* naver: click the body or press Tab, then keyboard.type every line;
\* tistory: insert the HTML into the editor frame, textbox fallback, or return
Body ==
  /\ UNCHANGED nonPubVars
  /\ pc = "body"
  /\ \/ \E contentEntered \in BOOLEAN :
          /\ IF platform = "tistory" /\ ~contentEntered
             THEN ReturnContextClosed(Failure("ELEMENT_NOT_FOUND"))
             ELSE pc' = "submit" /\ UNCHANGED <<gRes, result>>
          /\ UNCHANGED <<gIn, gOpen, gJar, gLogin, gEdit, currentUrl>>
     \/ Throws

\* the publish button cascade and the confirmation dialog;
\* tistory falls back to Control+Enter and sets publishClicked = true
Submit ==
  /\ UNCHANGED nonPubVars
  /\ pc = "submit"
  /\ \/ \E clicked \in BOOLEAN :
          /\ publishClicked' = IF platform = "tistory" THEN TRUE ELSE clicked
          /\ submitted' = IF platform = "tistory" THEN TRUE ELSE clicked
          /\ pc' = "verify"
          /\ UNCHANGED <<gIn, gOpen, gRes, gJar, gLogin, titleResolved, typed,
                         finalUrl, postIdFromUrl, postId, currentUrl, result>>
     \/ Throws

(* ----------------------- publish: the outcome -------------------------- *)
\* finalUrl = page.url() (or its catch block), post id from the URL
Verify ==
  /\ UNCHANGED nonPubVars
  /\ pc = "verify"
  /\ \E f \in FinalUrls(platform) :
       /\ finalUrl' = f
       /\ postIdFromUrl' = UrlHasPostId(f)
       /\ postId' = UrlHasPostId(f)
       /\ IF platform = "tistory" /\ f = "unreadable"
          THEN ReturnContextClosed(
                 [returned |-> TRUE, success |-> TRUE, error |-> "none",
                  postUrl |-> "home", postId |-> FALSE,
                  newCookies |-> currentCookies])
          ELSE /\ pc' = IF platform = "naver" /\ ~UrlHasPostId(f)
                        THEN "listing" ELSE "finish"
               /\ UNCHANGED <<gRes, result>>
  /\ UNCHANGED <<gIn, gOpen, gJar, gLogin, titleResolved, typed, submitted,
                 publishClicked, currentUrl>>

\* naver: open PostList.naver in a new page and take the first logNo link
Listing ==
  /\ UNCHANGED nonPubVars
  /\ pc = "listing"
  /\ \/ /\ \E latestFound \in BOOLEAN : postId' = latestFound
        /\ pc' = "finish"
        /\ UNCHANGED <<gIn, gOpen, gRes, gJar, gLogin, titleResolved, typed, submitted,
                       publishClicked, finalUrl, postIdFromUrl, currentUrl, result>>
     \/ Throws

\* result of the normal exit, from publishSuccess, postId and postUrl
Outcome(p, f, pid, clicked, jar) ==
  IF p = "naver"
  THEN IF NaverPublishSuccess(f) \/ pid
       THEN [returned |-> TRUE, success |-> TRUE, error |-> "none",
             postUrl |-> NaverPostUrl(pid, f), postId |-> pid, newCookies |-> jar]
       ELSE [returned |-> TRUE, success |-> FALSE, error |-> "SUBMIT_UNCONFIRMED",
             postUrl |-> "final", postId |-> FALSE, newCookies |-> jar]
  ELSE IF TistoryPublishSuccess(f, clicked) \/ pid
       THEN [returned |-> TRUE, success |-> TRUE, error |-> "none",
             postUrl |-> TistoryPostUrl(pid, f), postId |-> pid, newCookies |-> jar]
       ELSE [returned |-> TRUE, success |-> FALSE, error |-> "SUBMIT_UNCONFIRMED",
             postUrl |-> "final", postId |-> FALSE, newCookies |-> jar]

\* newCookies = JSON.stringify(await context.cookies()) (undefined if that
\* throws), both closes, then the success or unconfirmed result
Finish ==
  /\ UNCHANGED nonPubVars
  /\ pc = "finish"
  /\ \E cookiesRead \in BOOLEAN :
       ReturnClosed(Outcome(platform, finalUrl, postId, publishClicked,
                            IF cookiesRead THEN ctxJar ELSE NoCookies))
  /\ UNCHANGED <<gIn, gOpen, gJar, gLogin, gEdit, currentUrl>>

\* the caller has the result; the locals of the call are gone
Returned ==
  /\ UNCHANGED nonPubVars
  /\ pc = "done"
  /\ pc' = "idle"
  /\ browser' = "none" /\ context' = "none"
  /\ ctxJar' = NoCookies /\ currentCookies' = NoCookies /\ currentUrl' = "blank"
  /\ reloginAttempts' = 0 /\ writeNavsAfterRelogin' = 0
  /\ cookies' = NoCookies /\ sessionExpired' = FALSE
  /\ loginState' = "NOT_AUTHENTICATED" /\ loginSubmits' = 0 /\ loginNavs' = 0
  /\ titleResolved' = "unknown" /\ typed' = FALSE /\ submitted' = FALSE
  /\ publishClicked' = FALSE /\ finalUrl' = "none" /\ postIdFromUrl' = FALSE
  /\ postId' = FALSE /\ result' = NoResult
  /\ platform' = "naver" /\ credentials' = FALSE /\ blogUrl' = "valid"
  /\ UNCHANGED <<gOpen, browsersClosed, contextsClosed, calls>>

NextPublish ==
  \/ StartPublish \/ CreateFreshBrowser \/ NewContext \/ AddCookies \/ GotoMain
  \/ GotoWrite \/ LoginEnter \/ LoginSubmit \/ LoginClassify \/ AfterLogin
  \/ RegotoWrite \/ Arrival \/ ArrivalRetry \/ Editor \/ Title \/ Body \/ Submit
  \/ Verify \/ Listing \/ Finish \/ Returned

(* ----------------- remote interactive sessions (broker) ---------------- *)
Users == {"A", "B"}
Projects == {"pA", "pB"}

\* projects.userId
Owner(prj) == IF prj = "pA" THEN "A" ELSE "B"

SessionIds == 1..MaxSessions

NoSession == [open |-> FALSE, platform |-> "none", startedBy |-> "none",
              url |-> "none", cookies |-> 0, authCookie |-> FALSE]

NoConnection == [exists |-> FALSE, userId |-> "none", accessToken |-> "none",
                 tokenFrom |-> "none", status |-> "DISCONNECTED"]

InitRemote ==
  /\ sessions = [i \in SessionIds |-> NoSession]
  /\ connections = [k \in Projects \X Platforms |-> NoConnection]
  /\ nextSession = 0

\* classes of page.url() of an interactive session:
\*   "login"      www.tistory.com/auth/login, nid.naver.com/nidlogin.login
\*   "kakaoLogin" accounts.kakao.com/login?continue=...www.tistory.com... (tistory)
\*   "home"       a page of the platform's own site
\*   "other"      any other page
SessionUrls(p) ==
  IF p = "tistory" THEN {"login", "kakaoLogin", "home", "other"}
  ELSE {"login", "home", "other"}

\* currentUrl.includes('tistory.com')
IncludesTistoryCom(u) == u \in {"login", "kakaoLogin", "home"}

\* BrowserlessService.saveCookies: the login check on the session's page
\*   tistory: !url.includes('/auth/login') && (url.includes('tistory.com') || TSSESSION)
\*   naver:   !url.includes('nidlogin') && !url.includes('/login') && (NID_AUT || NID_SES)
\* after the check that the jar holds at least one cookie
IsLoggedIn(sess) ==
  /\ sess.cookies > 0
  /\ IF sess.platform = "tistory"
     THEN sess.url # "login" /\ (IncludesTistoryCom(sess.url) \/ sess.authCookie)
     ELSE sess.url # "login" /\ sess.authCookie

\* MediaService.verifyProjectOwnership
VerifyProjectOwnership(prj, u) == Owner(prj) = u

\* may the request of user u capture session sid
MayCapture(sid, u) == sessions[sid].open

\* MediaController.startRemoteBrowser -> BrowserlessService.startSession:
\* connect, new context and page, goto the login page, sessions.set(sessionId)
StartRemoteBrowser ==
  /\ UNCHANGED nonRemVars
  /\ nextSession < MaxSessions
  /\ \E u \in Users, p \in Platforms, ok \in BOOLEAN :
       /\ nextSession' = nextSession + 1
       /\ sessions' = IF ok
                      THEN [sessions EXCEPT ![nextSession + 1] =
                             [open |-> TRUE, platform |-> p, startedBy |-> u,
                              url |-> "login", cookies |-> 0, authCookie |-> FALSE]]
                      ELSE sessions
  /\ UNCHANGED connections

\* the human who was handed the live view drives the remote page
HumanActs ==
  /\ UNCHANGED nonRemVars
  /\ \E sid \in SessionIds, n \in 0..1, a \in BOOLEAN :
       /\ sessions[sid].open
       /\ a => n = 1
       /\ \E u \in SessionUrls(sessions[sid].platform) :
            sessions' = [sessions EXCEPT ![sid].url = u, ![sid].cookies = n,
                                         ![sid].authCookie = a]
       /\ sessions' # sessions
  /\ UNCHANGED <<connections, nextSession>>

\* MediaController.saveRemoteBrowserCookies: BrowserlessService.saveCookies
\* (which closes the session on success), then MediaService.updateCookies
SaveRemoteBrowserCookies ==
  /\ UNCHANGED nonRemVars
  /\ \E u \in Users, sid \in SessionIds, prj \in Projects, p \in Platforms :
       IF MayCapture(sid, u) /\ IsLoggedIn(sessions[sid])
       THEN /\ sessions' = [sessions EXCEPT ![sid] = NoSession]
            /\ connections' =
                 IF VerifyProjectOwnership(prj, u)
                 THEN [connections EXCEPT ![<<prj, p>>] =
                        [exists |-> TRUE, userId |-> Owner(prj),
                         accessToken |-> "flat",
                         tokenFrom |-> sessions[sid].startedBy,
                         status |-> "CONNECTED"]]
                 ELSE connections
       ELSE UNCHANGED <<sessions, connections>>
  /\ UNCHANGED nextSession

\* MediaController.closeRemoteBrowser -> BrowserlessService.closeSession
CloseRemoteBrowser ==
  /\ UNCHANGED nonRemVars
  /\ \E u \in Users, sid \in SessionIds :
       /\ sessions[sid].open
       /\ sessions' = [sessions EXCEPT ![sid] = NoSession]
  /\ UNCHANGED <<connections, nextSession>>

NextRemote ==
  \/ StartRemoteBrowser \/ HumanActs \/ SaveRemoteBrowserCookies \/ CloseRemoteBrowser

(* ------------------ cookie strings: serialize and parse ---------------- *)
\* Strings are sequences of characters; a cookie's domain is one token.
CookieNames == {<<"a">>, <<"b">>}
CookieValues == {<<"x", "=", "z">>}

\* the `domain` argument of parseCookieString: '.naver.com' / '.tistory.com'
PlatformDomain(p) == IF p = "naver" THEN ".naver.com" ELSE ".tistory.com"

\* domains of the cookies context.cookies() returns after a login
CookieDomains(p) ==
  IF p = "naver" THEN {".naver.com", "nid.naver.com"}
  ELSE {".tistory.com", ".kakao.com"}

Cookies(p) == [name : CookieNames, value : CookieValues, domain : CookieDomains(p)]

Jars(p) == UNION {[1..n -> Cookies(p)] : n \in 0..MaxCookies}

\* String.prototype.indexOf(ch) + 1 (0 when absent)
IndexOf(s, ch) ==
  IF \E i \in 1..Len(s) : s[i] = ch
  THEN CHOOSE i \in 1..Len(s) : s[i] = ch /\ \A k \in 1..(i - 1) : s[k] # ch
  ELSE 0

\* String.prototype.includes(ch)
Includes(s, ch) == IndexOf(s, ch) > 0

RECURSIVE TrimStart(_)
TrimStart(s) == IF s # <<>> /\ Head(s) = " " THEN TrimStart(Tail(s)) ELSE s

RECURSIVE TrimEnd(_)
TrimEnd(s) ==
  IF s # <<>> /\ s[Len(s)] = " " THEN TrimEnd(SubSeq(s, 1, Len(s) - 1)) ELSE s

\* String.prototype.trim()
Trim(s) == TrimEnd(TrimStart(s))

\* String.prototype.split(';')
RECURSIVE SplitSemi(_)
SplitSemi(s) ==
  IF ~Includes(s, ";") THEN <<s>>
  ELSE <<SubSeq(s, 1, IndexOf(s, ";") - 1)>>
         \o SplitSemi(SubSeq(s, IndexOf(s, ";") + 1, Len(s)))

\* cookies.map(c => `${c.name}=${c.value}`).join('; ')
RECURSIVE FlatSerialize(_)
FlatSerialize(j) ==
  IF j = <<>> THEN <<>>
  ELSE Head(j).name \o <<"=">> \o Head(j).value
         \o (IF Len(j) > 1 THEN <<";", " ">> \o FlatSerialize(Tail(j)) ELSE <<>>)

RECURSIVE JsonObjects(_)
JsonObjects(j) ==
  IF j = <<>> THEN <<>>
  ELSE <<"{">> \o Head(j).name \o <<":">> \o Head(j).value
         \o <<"@", Head(j).domain, "}">>
         \o (IF Len(j) > 1 THEN <<",">> \o JsonObjects(Tail(j)) ELSE <<>>)

\* JSON.stringify(await context.cookies())
JsonStringify(j) == <<"[">> \o JsonObjects(j) \o <<"]">>

JsonFail == [ok |-> FALSE, jar |-> <<>>]

\* the objects between '[' and ']'
RECURSIVE JsonParseObjects(_)
JsonParseObjects(s) ==
  IF s = <<>> THEN [ok |-> TRUE, jar |-> <<>>]
  ELSE
    LET colon == IndexOf(s, ":")
        at    == IndexOf(s, "@")
        close == IndexOf(s, "}")
    IN IF ~(Head(s) = "{" /\ 1 < colon /\ colon < at /\ at + 2 = close)
       THEN JsonFail
       ELSE
         LET c    == [name |-> SubSeq(s, 2, colon - 1),
                      value |-> SubSeq(s, colon + 1, at - 1),
                      domain |-> s[at + 1]]
             rest == SubSeq(s, close + 1, Len(s))
         IN IF rest = <<>> THEN [ok |-> TRUE, jar |-> <<c>>]
            ELSE IF Head(rest) # "," \/ Len(rest) = 1 THEN JsonFail
            ELSE LET r == JsonParseObjects(Tail(rest))
                 IN IF r.ok THEN [ok |-> TRUE, jar |-> <<c>> \o r.jar] ELSE JsonFail

\* JSON.parse(text) restricted to arrays of cookie objects; ok = it did not throw
JsonParse(s) ==
  IF Len(s) >= 2 /\ s[1] = "[" /\ s[Len(s)] = "]"
  THEN JsonParseObjects(SubSeq(s, 2, Len(s) - 1))
  ELSE JsonFail

\* .map(pair => pair.trim()).filter(pair => pair.includes('=')).map(...)
RECURSIVE FlatPairs(_, _)
FlatPairs(pieces, domain) ==
  IF pieces = <<>> THEN <<>>
  ELSE
    LET pair == Trim(Head(pieces))
        eq   == IndexOf(pair, "=")
    IN (IF eq > 0
        THEN <<[name |-> Trim(SubSeq(pair, 1, eq - 1)),
                value |-> Trim(SubSeq(pair, eq + 1, Len(pair))),
                domain |-> domain]>>
        ELSE <<>>)
       \o FlatPairs(Tail(pieces), domain)

\* PlaywrightAuthService.parseCookieString
ParseCookieString(str, domain) ==
  LET trimmed == Trim(str)
  IN IF trimmed # <<>> /\ Head(trimmed) = "[" /\ JsonParse(trimmed).ok
     THEN JsonParse(trimmed).jar
     ELSE FlatPairs(SplitSemi(trimmed), domain)

\* MediaController.saveDirectCookies: the normalisation of the posted string
\* (the posted strings carry no tab, so the DevTools table branch is not taken)
NormalizeDirect(str) ==
  LET normalizedCookies == Trim(str)
  IN IF JsonParse(normalizedCookies).ok
     THEN FlatSerialize(JsonParse(normalizedCookies).jar)
     ELSE normalizedCookies

\* strings a user may post that are no serialization of a jar
DirectJunk == {<<>>, <<" ">>, <<"a">>, <<"[", "]">>, <<"a", ";", "b">>}

InitCookies ==
  /\ capturedJar = <<>> /\ jarKnown = FALSE /\ accessToken = <<>>
  /\ tokenPlatform = "naver" /\ tokenStatus = "none"
  /\ cookieArray = <<>> /\ addCookiesCalled = FALSE /\ cookieHeader = <<>>

\* MediaService.updateCookies: the string is stored as it is, status CONNECTED
StoreToken(p, s, j, known) ==
  /\ accessToken' = s /\ tokenPlatform' = p /\ tokenStatus' = "CONNECTED"
  /\ capturedJar' = j /\ jarKnown' = known
  /\ cookieArray' = <<>> /\ addCookiesCalled' = FALSE /\ cookieHeader' = <<>>

\* BrowserlessService.saveCookies: context.cookies(), the zero-cookie check,
\* the flat string; the controller then stores it with updateCookies
SaveCookies ==
  /\ UNCHANGED nonCkVars
  /\ \E p \in Platforms : \E j \in Jars(p) :
       IF Len(j) = 0 THEN UNCHANGED ckVars
       ELSE StoreToken(p, FlatSerialize(j), j, TRUE)

\* PublishService.publish: result.newCookies = JSON.stringify(context.cookies())
\* of a successful publish is written back to connection.accessToken
WriteBackNewCookies ==
  /\ UNCHANGED nonCkVars
  /\ tokenStatus = "CONNECTED"
  /\ \E j \in Jars(tokenPlatform) :
       /\ Len(j) > 0
       /\ StoreToken(tokenPlatform, JsonStringify(j), j, TRUE)

\* MediaController.saveDirectCookies: normalise the posted string, updateCookies
SaveDirectCookies ==
  /\ UNCHANGED nonCkVars
  /\ \E p \in Platforms :
       \/ \E j \in Jars(p) : \E s \in {FlatSerialize(j), JsonStringify(j)} :
            /\ Len(j) > 0
            /\ StoreToken(p, NormalizeDirect(s), j, TRUE)
       \/ \E s \in DirectJunk : StoreToken(p, NormalizeDirect(s), <<>>, FALSE)

\* PublishService.publish rejects a missing or empty accessToken; otherwise
\* publishToNaverBlog / publishToTistory parse it and call context.addCookies
InjectCookies ==
  /\ UNCHANGED nonCkVars
  /\ tokenStatus = "CONNECTED" /\ ~addCookiesCalled
  /\ IF accessToken = <<>> THEN UNCHANGED ckVars
     ELSE /\ cookieArray' = ParseCookieString(accessToken, PlatformDomain(tokenPlatform))
          /\ addCookiesCalled' = TRUE
          /\ UNCHANGED <<capturedJar, jarKnown, accessToken, tokenPlatform, tokenStatus,
                         cookieHeader>>

\* the cookies a web server reads from a Cookie header: the name=value pairs
\* between the semicolons
HeaderCookies(header) == FlatPairs(SplitSemi(header), "header")

\* the names and values of a jar, as a server would have to read them
SentCookies(j) ==
  [k \in 1..Len(j) |-> [name |-> j[k].name, value |-> j[k].value, domain |-> "header"]]

\* MediaService.testConnection on a naver / tistory record: with a stored
\* string testConnectionWithCookies sends it as the Cookie header of a GET
\* and the site answers with the blog page or the login page; without one,
\* testAuth logs in and the record gets JSON.stringify(context.cookies())
TestPlaywrightConnection ==
  /\ UNCHANGED nonCkVars
  /\ tokenStatus # "none"
  /\ IF accessToken # <<>>
     THEN /\ cookieHeader' = accessToken
          /\ \E sessionValid \in BOOLEAN :
               tokenStatus' = IF /\ sessionValid /\ jarKnown
                                 /\ HeaderCookies(accessToken) = SentCookies(capturedJar)
                              THEN "CONNECTED" ELSE "ERROR"
          /\ UNCHANGED <<capturedJar, jarKnown, accessToken, tokenPlatform, cookieArray,
                         addCookiesCalled>>
     ELSE \E hasCredentials \in BOOLEAN, j \in Jars(tokenPlatform) :
            IF hasCredentials /\ Len(j) > 0
            THEN StoreToken(tokenPlatform, JsonStringify(j), j, TRUE)
            ELSE /\ tokenStatus' = "ERROR"
                 /\ UNCHANGED <<capturedJar, jarKnown, accessToken, tokenPlatform,
                                cookieArray, addCookiesCalled, cookieHeader>>

NextCookies ==
  \/ SaveCookies \/ WriteBackNewCookies \/ SaveDirectCookies \/ InjectCookies
  \/ TestPlaywrightConnection

(* --------------- which browser process serves an operation ------------- *)
Operations == {"testNaverBlogAuth", "testTistoryAuth", "getNaverBlogStats",
               "openManualLoginBrowser", "publishToNaverBlog", "publishToTistory"}

\* `await this.getBrowser()` or `await this.createFreshBrowser()`
BrowserOf(op) ==
  IF op \in {"publishToNaverBlog", "publishToTistory"} THEN "fresh" ELSE "shared"

\* what the operation does with credentials or cookies in its context
SecretUse(op) ==
  CASE op \in {"testNaverBlogAuth", "testTistoryAuth"} -> "submitsCredentials"
    [] op = "getNaverBlogStats"                         -> "injectsCookies"
    [] op = "openManualLoginBrowser"                    -> "extractsCookies"
    [] OTHER                                            -> "injectsAndExtractsCookies"

OpSlots == 1..MaxOps

NoOp == [op |-> "none", browser |-> "none", step |-> "idle"]

InitBrowsers ==
  /\ thisBrowser = "null"
  /\ running = [i \in OpSlots |-> NoOp]

\* getBrowser: launch when this.browser is null or not connected, else reuse
GetBrowser == IF thisBrowser = "connected" THEN thisBrowser ELSE "connected"

\* an operation starts: it takes its browser and opens a context in it
BeginOperation ==
  /\ UNCHANGED nonBrVars
  /\ \E i \in OpSlots, op \in Operations :
       /\ running[i] = NoOp
       /\ running' = [running EXCEPT ![i] =
                        [op |-> op, browser |-> BrowserOf(op), step |-> "context"]]
       /\ thisBrowser' = IF BrowserOf(op) = "shared" THEN GetBrowser ELSE thisBrowser

\* the operation fills the login form, calls addCookies or reads context.cookies()
UseSecrets ==
  /\ UNCHANGED nonBrVars
  /\ \E i \in OpSlots :
       /\ running[i].step = "context"
       /\ running[i].browser = "shared" => thisBrowser = "connected"
       /\ running' = [running EXCEPT ![i].step = SecretUse(running[i].op)]
  /\ UNCHANGED thisBrowser

\* the operation ends: context.close(), and browser.close() for a fresh browser
EndOperation ==
  /\ UNCHANGED nonBrVars
  /\ \E i \in OpSlots :
       /\ running[i] # NoOp
       /\ running' = [running EXCEPT ![i] = NoOp]
  /\ UNCHANGED thisBrowser

\* PlaywrightAuthService.closeBrowser, or the shared process dies
CloseSharedBrowser ==
  /\ UNCHANGED nonBrVars
  /\ thisBrowser = "connected"
  /\ thisBrowser' \in {"null", "disconnected"}
  /\ UNCHANGED running

NextBrowsers == BeginOperation \/ UseSecrets \/ EndOperation \/ CloseSharedBrowser

(* ------------- connection records: find, then insert or update -------- *)
WriterSlots == 1..MaxWriters

WriteOps == {"createOrUpdate", "updateCookies"}

ConnectionKeys == {"pA"} \X Platforms

IdleWriter == [op |-> "none", key |-> <<"none", "none">>, step |-> "idle",
               outcome |-> "none"]

InitRecords ==
  /\ mediaConnections = {}
  /\ nextId = 0
  /\ writers = [i \in WriterSlots |-> IdleWriter]

\* variant: the table has no unique index
UniqueIndexAllows_NoIndex(rows, key) == TRUE

\* @Index(['projectId', 'platform'], { unique: true }): may a row be inserted
UniqueIndexAllows(rows, key) == \A r \in rows : r.key # key

\* verifyProjectOwnership, then mediaConnectionRepository.findOne({projectId, platform})
FindOne ==
  /\ UNCHANGED nonRecVars
  /\ \E i \in WriterSlots, op \in WriteOps, key \in ConnectionKeys, owns \in BOOLEAN :
       /\ writers[i].step = "idle"
       /\ writers' = [writers EXCEPT ![i] =
            IF ~owns
            THEN [op |-> op, key |-> key, step |-> "idle", outcome |-> "forbidden"]
            ELSE [op |-> op, key |-> key,
                  step |-> IF \E r \in mediaConnections : r.key = key
                           THEN "found" ELSE "notFound",
                  outcome |-> "none"]]
  /\ UNCHANGED <<mediaConnections, nextId>>

\* mediaConnectionRepository.save(connection): UPDATE of the row found, or
\* INSERT of a new row, which the unique index rejects for a taken key
Save ==
  /\ UNCHANGED nonRecVars
  /\ \E i \in WriterSlots :
       /\ writers[i].step \in {"found", "notFound"}
       /\ IF writers[i].step = "notFound"
             /\ UniqueIndexAllows(mediaConnections, writers[i].key)
          THEN /\ mediaConnections' = mediaConnections \cup
                    {[id |-> nextId + 1, key |-> writers[i].key]}
               /\ nextId' = nextId + 1
               /\ writers' = [writers EXCEPT ![i].step = "idle",
                                             ![i].outcome = "saved"]
          ELSE /\ UNCHANGED <<mediaConnections, nextId>>
               /\ writers' = [writers EXCEPT
                    ![i].step = "idle",
                    ![i].outcome = IF writers[i].step = "found"
                                   THEN "saved" ELSE "rejected"]

NextRecords == FindOne \/ Save

(* ------------- verification and publish attempts on a record ----------- *)
\* result.message of a failed test, or error.message of a thrown one
TestErrors == {"LOGIN_FAILED", "THROWN"}

\* result.error of a failed publishToNaverBlog / publishToTistory
PublishErrors == {"SESSION_EXPIRED", "REAUTH_FAILED", "ELEMENT_NOT_FOUND",
                  "SUBMIT_UNCONFIRMED", "INFRASTRUCTURE"}

\* the record as createOrUpdate leaves it
InitHealth ==
  /\ attempts = 0
  /\ connection = [status |-> "DISCONNECTED", lastCheckedAt |-> 0, lastError |-> "none"]
  /\ lastAttempt = [kind |-> "none", error |-> "none"]

\* MediaService.testConnection: status, lastCheckedAt and lastError are set
\* from the result, and in the catch block from the thrown error
TestConnection ==
  /\ UNCHANGED nonHlVars
  /\ attempts < MaxAttempts
  /\ \E res \in {"none"} \cup TestErrors :
       /\ attempts' = attempts + 1
       /\ connection' = [status |-> IF res = "none" THEN "CONNECTED" ELSE "ERROR",
                         lastCheckedAt |-> attempts + 1,
                         lastError |-> res]
       /\ lastAttempt' = [kind |-> "test", error |-> res]

\* PublishService.publish for NAVER_BLOG / TISTORY: the CONNECTED record is
\* looked up, the publish runs, and only the publish log and the content are
\* updated (accessToken too on success; it is not part of this record)
PublishAttempt ==
  /\ UNCHANGED nonHlVars
  /\ attempts < MaxAttempts
  /\ attempts' = attempts + 1
  /\ IF connection.status # "CONNECTED"
     THEN lastAttempt' = [kind |-> "publishNoConnection", error |-> "MISSING_CONNECTION"]
     ELSE \E res \in {"none"} \cup PublishErrors :
            lastAttempt' = [kind |-> "publish", error |-> res]
  /\ UNCHANGED connection

NextHealth == TestConnection \/ PublishAttempt

(* ------------------ publish queue: runs and retries -------------------- *)
\* QueueService.addPublishJob: attempts: 3
JobAttempts == 3

\* PublishService.publish returns the publish log: success, or a failure that
\* publishToNaverBlog / publishToTistory reported as a result
ReturnedOutcomes == {"none", "MISSING_CONNECTION"} \cup PublishErrors

\* PublishService.publish throws: NotFoundException, ForbiddenException, or a
\* repository call rejects
ThrownOutcomes == {"NOT_FOUND", "AUTHORIZATION", "INFRASTRUCTURE"}

InitQueue == jobState = "none" /\ attemptsMade = 0 /\ jobOutcomes = <<>>

\* QueueService.addPublishJob
AddPublishJob ==
  /\ UNCHANGED nonQVars
  /\ jobState \in {"none", "completed", "failed"}
  /\ jobState' = "waiting" /\ attemptsMade' = 0 /\ jobOutcomes' = <<>>

\* the queue's handling of a run that threw: retry while attempts remain
StateAfterThrow(made) == IF made < JobAttempts THEN "waiting" ELSE "failed"

\* PublishProcessor.process: publishService.publish, any error is rethrown
Process ==
  /\ UNCHANGED nonQVars
  /\ jobState = "waiting"
  /\ \/ \E o \in ReturnedOutcomes :
          /\ jobOutcomes' = Append(jobOutcomes, [error |-> o, thrown |-> FALSE])
          /\ jobState' = "completed"
          /\ UNCHANGED attemptsMade
     \/ \E o \in ThrownOutcomes :
          /\ jobOutcomes' = Append(jobOutcomes, [error |-> o, thrown |-> TRUE])
          /\ attemptsMade' = attemptsMade + 1
          /\ jobState' = StateAfterThrow(attemptsMade + 1)

NextQueue == AddPublishJob \/ Process

(* --------- interactive session: close, capture and sweep by steps ------ *)
CallerSlots == 1..MaxCallers

IdleCaller == [op |-> "idle", step |-> "idle"]

NoLiveSession == [registered |-> FALSE, expired |-> FALSE,
                  context |-> "none", browser |-> "none"]

InitSessions ==
  /\ liveSession = NoLiveSession
  /\ callers = [i \in CallerSlots |-> IdleCaller]
  /\ sweeper = "idle"
  /\ unhandledRejection = FALSE

Quiet == sweeper = "idle" /\ \A i \in CallerSlots : callers[i] = IdleCaller

\* how far startSession gets before an awaited call throws
StartOutcomes == {"connectThrows", "newContextThrows", "gotoThrows", "started"}

\* what startSession leaves behind: connectOverCDP, newContext, newPage,
\* newCDPSession, goto the login page, sessions.set; its catch block returns
\* the failure and does not close what was opened
AfterStart(outcome) ==
  [registered |-> outcome = "started", expired |-> FALSE,
   context |-> IF outcome \in {"gotoThrows", "started"} THEN "open" ELSE "none",
   browser |-> IF outcome = "connectThrows" THEN "none" ELSE "open"]

\* BrowserlessService.startSession
StartSession ==
  /\ UNCHANGED nonSeVars
  /\ ~liveSession.registered /\ Quiet
  /\ \E outcome \in StartOutcomes : liveSession' = AfterStart(outcome)
  /\ UNCHANGED <<callers, sweeper, unhandledRejection>>

\* now - session.startTime.getTime() > SESSION_TIMEOUT becomes true
Tick ==
  /\ UNCHANGED nonSeVars
  /\ liveSession.registered /\ ~liveSession.expired
  /\ liveSession' = [liveSession EXCEPT !.expired = TRUE]
  /\ UNCHANGED <<callers, sweeper, unhandledRejection>>

\* variant: the try block of closeSession has no catch
Resumed_NoCatch(st, s) ==
  CASE st = "detach" ->
         IF s.context = "open"
         THEN {[step |-> "context", sess |-> [s EXCEPT !.context = "closed"],
                unhandled |-> FALSE]}
         ELSE {[step |-> "context", sess |-> s, unhandled |-> FALSE],
               [step |-> "contextThrew", sess |-> s, unhandled |-> FALSE]}
    [] st = "context" ->
         {[step |-> "browser", sess |-> [s EXCEPT !.browser = "closed"],
           unhandled |-> FALSE]}
    [] st = "contextThrew" ->
         {[step |-> "done", sess |-> s, unhandled |-> TRUE]}
    [] OTHER ->
         {[step |-> "done", sess |-> [s EXCEPT !.registered = FALSE],
           unhandled |-> FALSE]}

\* BrowserlessService.closeSession after a session was found, one await at a
\* time: st is the await that resolved, the result is the next await (or done),
\* the session after the calls made before it, and whether an error escaped.
\*   "detach"       cdpSession.detach().catch(() => {}) -> context.close()
\*   "context"      context.close() resolved -> browser.close()
\*   "contextThrew" context.close() rejected -> catch, sessions.delete
\*   "browser"      browser.close() settled -> sessions.delete
\* close() on a context that is already closed resolves or rejects.
Resumed(st, s) ==
  CASE st = "detach" ->
         IF s.context = "open"
         THEN {[step |-> "context", sess |-> [s EXCEPT !.context = "closed"],
                unhandled |-> FALSE]}
         ELSE {[step |-> "context", sess |-> s, unhandled |-> FALSE],
               [step |-> "contextThrew", sess |-> s, unhandled |-> FALSE]}
    [] st = "context" ->
         {[step |-> "browser", sess |-> [s EXCEPT !.browser = "closed"],
           unhandled |-> FALSE]}
    [] OTHER ->
         {[step |-> "done", sess |-> [s EXCEPT !.registered = FALSE],
           unhandled |-> FALSE]}

CloseSteps == {"detach", "context", "contextThrew", "browser"}

\* variant: the sweep never finds a session past the timeout
SweepSelects_Never(s) == FALSE

\* cleanupExpiredSessions: the sessions it closes
SweepSelects(s) == s.registered /\ s.expired

\* a request calls closeSession(sessionId): an id that is not in the map
\* returns at once, otherwise the CDP session is detached
CallCloseSession ==
  /\ UNCHANGED nonSeVars
  /\ \E i \in CallerSlots :
       /\ callers[i] = IdleCaller
       /\ callers' = IF liveSession.registered
                     THEN [callers EXCEPT ![i] = [op |-> "close", step |-> "detach"]]
                     ELSE callers
  /\ UNCHANGED <<liveSession, sweeper, unhandledRejection>>

\* an await of closeSession resolves in a closeSession or saveCookies call
CloseSessionResumes ==
  /\ UNCHANGED nonSeVars
  /\ \E i \in CallerSlots :
       /\ callers[i].step \in CloseSteps
       /\ \E r \in Resumed(callers[i].step, liveSession) :
            /\ liveSession' = r.sess
            /\ unhandledRejection' = (unhandledRejection \/ r.unhandled)
            /\ callers' = [callers EXCEPT ![i] =
                             IF r.step = "done" THEN IdleCaller
                             ELSE [op |-> callers[i].op, step |-> r.step]]
  /\ UNCHANGED sweeper

\* a request calls saveCookies(sessionId): an id that is not in the map
\* returns the failure at once, otherwise context.cookies() is awaited
CallSaveCookies ==
  /\ UNCHANGED nonSeVars
  /\ \E i \in CallerSlots :
       /\ callers[i] = IdleCaller
       /\ callers' = IF liveSession.registered
                     THEN [callers EXCEPT ![i] = [op |-> "save", step |-> "cookies"]]
                     ELSE callers
  /\ UNCHANGED <<liveSession, sweeper, unhandledRejection>>

\* the pages on which the human has not finished: login and challenge pages
MatchesLoginPattern(u) == u \in {"login", "kakaoLogin"}

\* saveCookies after context.cookies(): a closed context rejects (caught, the
\* failure is returned); otherwise the zero-cookie check and the login check
\* on page.url(); a logged-in session goes on to read the account data
SaveCookiesJudges ==
  /\ UNCHANGED nonSeVars
  /\ \E i \in CallerSlots :
       /\ callers[i].step = "cookies"
       /\ IF liveSession.context # "open"
          THEN callers' = [callers EXCEPT ![i] = IdleCaller]
          ELSE \E p \in Platforms, n \in 0..1, a \in BOOLEAN :
                 \E u \in SessionUrls(p) :
                   /\ a => n = 1
                   /\ callers' = [callers EXCEPT ![i] =
                        IF ~IsLoggedIn([platform |-> p, url |-> u, cookies |-> n,
                                        authCookie |-> a])
                        THEN IdleCaller
                        ELSE [op |-> "save",
                              step |-> IF MatchesLoginPattern(u)
                                       THEN "infoAtLogin" ELSE "info"]]
  /\ UNCHANGED <<liveSession, sweeper, unhandledRejection>>

\* saveCookies after the account data: await this.closeSession(sessionId);
\* when the id is no longer in the map closeSession returns at once and
\* saveCookies returns success
SaveCookiesCloses ==
  /\ UNCHANGED nonSeVars
  /\ \E i \in CallerSlots :
       /\ callers[i].step \in {"info", "infoAtLogin"}
       /\ callers' = [callers EXCEPT ![i] =
                        IF liveSession.registered
                        THEN [op |-> "save", step |-> "detach"]
                        ELSE IdleCaller]
  /\ UNCHANGED <<liveSession, sweeper, unhandledRejection>>

\* setInterval fires cleanupExpiredSessions: a session past the timeout is
\* closed with closeSession
SweepStarts ==
  /\ UNCHANGED nonSeVars
  /\ sweeper = "idle"
  /\ sweeper' = IF SweepSelects(liveSession) THEN "detach" ELSE "idle"
  /\ UNCHANGED <<liveSession, callers, unhandledRejection>>

\* an await of closeSession resolves in the sweep
SweepResumes ==
  /\ UNCHANGED nonSeVars
  /\ sweeper \in CloseSteps
  /\ \E r \in Resumed(sweeper, liveSession) :
       /\ liveSession' = r.sess
       /\ unhandledRejection' = (unhandledRejection \/ r.unhandled)
       /\ sweeper' = IF r.step = "done" THEN "idle" ELSE r.step
  /\ UNCHANGED callers

NextSessions ==
  \/ StartSession \/ Tick \/ CallCloseSession \/ CloseSessionResumes
  \/ CallSaveCookies \/ SaveCookiesJudges \/ SaveCookiesCloses
  \/ SweepStarts \/ SweepResumes

(* ------------- PublishService.publish and connection requests ---------- *)
\* PublishPlatform of the publish request
PublishPlatforms == {"wordpress", "medium", "naver", "tistory"}

\* rows of media_connections a publish can look up
RowKeys == {"pA"} \X {"wordpress", "naver", "tistory"}

\* the content item belongs to project pA
ContentProject == "pA"

\* cookie string produced by a capture (updateCookies, createOrUpdate) and the
\* refreshed one a publish returns as result.newCookies; 0 is no string
CapturedCookies == 1
RefreshedCookies == 2

\* no row for the key; password stands for the pair (username, password) and
\* apiUrl for the blog / site URL (apiUrl, accountUrl); 0 is an empty column
NoRow == [exists |-> FALSE, projectId |-> "none", userId |-> "none", status |-> "DISCONNECTED",
          accessToken |-> 0, password |-> 0, refreshToken |-> 0, apiUrl |-> 0]

PublishSlots == 1..MaxPublishes

\* the id the platform gives the new post; 0 is no id
ExternalPostId == 1

NoPublishResult == [success |-> FALSE, postId |-> 0, newCookies |-> 0]

IdleCall == [pc |-> "idle", userId |-> "none", platform |-> "none",
             content |-> [status |-> "none"], connection |-> NoRow,
             result |-> NoPublishResult, automation |-> FALSE]

\* a call that ended: its locals are gone; how it ended and whether the
\* platform call reported success stay on record
Ended(call, how) ==
  [IdleCall EXCEPT !.pc = how,
                   !.result = [NoPublishResult EXCEPT !.success = call.result.success]]

InitService ==
  /\ contentRow = [status |-> "CREATED", wordpressPostId |-> 0, mediumPostId |-> 0,
                   naverBlogPostId |-> 0, tistoryPostId |-> 0]
  /\ mediaRows = [k \in RowKeys |-> NoRow]
  /\ publishLog = [i \in PublishSlots |-> "none"]
  /\ publishCall = [i \in PublishSlots |-> IdleCall]
  /\ requests = 0

\* variant: the lookup does not ask for status CONNECTED
ConnectionMatches_AnyStatus(row, projectId, userId) ==
  row.exists /\ row.projectId = projectId /\ row.userId = userId

\* where: { projectId, userId, platform, status: ConnectionStatus.CONNECTED }
ConnectionMatches(row, projectId, userId) ==
  /\ row.exists /\ row.projectId = projectId /\ row.userId = userId
  /\ row.status = "CONNECTED"

\* mediaConnectionRepository.findOne of publish: the row or NoRow (null)
FindConnection(projectId, userId, p) ==
  IF \E k \in RowKeys : k[2] = p /\ ConnectionMatches(mediaRows[k], projectId, userId)
  THEN mediaRows[CHOOSE k \in RowKeys :
                   k[2] = p /\ ConnectionMatches(mediaRows[k], projectId, userId)]
  ELSE NoRow

\* the test that stops the publish before any platform call
ConnectionIncomplete(p, c) ==
  CASE p = "wordpress" -> ~c.exists \/ c.apiUrl = 0 \/ c.password = 0
    [] p = "naver"     -> ~c.exists \/ c.accessToken = 0
    [] p = "tistory"   -> ~c.exists \/ c.accessToken = 0 \/ c.password = 0 \/ c.apiUrl = 0
    [] OTHER           -> TRUE

\* publish up to the platform call: findById and the owner check, the log
\* saved as PENDING, the connection lookup of the platform branch; FAILED and
\* return when the connection is incomplete (and always for medium)
PublishBeginBy(i, u, p) ==
  /\ UNCHANGED nonSvVars
  /\   /\ publishCall[i].pc = "idle"
       /\ \A j \in PublishSlots : j < i => publishCall[j].pc # "idle"
       /\ LET c == FindConnection(ContentProject, u, p)
              call == [publishCall[i] EXCEPT !.userId = u, !.platform = p]
          IN IF Owner(ContentProject) # u
             THEN /\ publishCall' = [publishCall EXCEPT ![i] = Ended(call, "thrown")]
                  /\ UNCHANGED publishLog
             ELSE IF ConnectionIncomplete(p, c)
             THEN /\ publishLog' = [publishLog EXCEPT ![i] = "FAILED"]
                  /\ publishCall' = [publishCall EXCEPT ![i] = Ended(call, "returned")]
             ELSE /\ publishLog' = [publishLog EXCEPT ![i] = "PENDING"]
                  /\ publishCall' = [publishCall EXCEPT ![i] =
                       [call EXCEPT !.pc = "automation", !.content = contentRow,
                                    !.connection = c, !.automation = TRUE]]
  /\ UNCHANGED <<contentRow, mediaRows, requests>>

\* a caller invokes PublishService.publish(userId, { contentId, platform })
PublishBegin ==
  \E i \in PublishSlots, u \in Users, p \in PublishPlatforms : PublishBeginBy(i, u, p)

\* what wordpressService.publish / publishToNaverBlog / publishToTistory return
PublishResults(i, p) ==
  { [success |-> s, postId |-> IF s THEN ExternalPostId ELSE 0, newCookies |-> n] :
      s \in BOOLEAN,
      n \in IF p = "wordpress" THEN {0} ELSE {0, RefreshedCookies} }

\* content fields set in the platform branch when result.success
BranchContent(c, p, r) ==
  IF ~r.success THEN c
  ELSE CASE p = "naver"   -> [c EXCEPT !.naverBlogPostId = r.postId]
         [] p = "tistory" -> [c EXCEPT !.tistoryPostId = r.postId]
         [] OTHER         -> c

\* variant: the refreshed cookies are not written back
StoresNewCookies_Never(r) == FALSE

\* if (result?.success) { ... if (result.newCookies) { ... save(connection) } }
StoresNewCookies(r) == r.success /\ r.newCookies # 0

\* the platform call returns; naver / tistory: content.<p>PostId = result.postId,
\* and connection.accessToken = result.newCookies; save(connection)
PublishAutomation ==
  /\ UNCHANGED nonSvVars
  /\ \E i \in PublishSlots :
       /\ publishCall[i].pc = "automation"
       /\ \E r \in PublishResults(i, publishCall[i].platform) :
            LET p == publishCall[i].platform
                c == [publishCall[i].connection EXCEPT !.accessToken = r.newCookies]
            IN /\ publishCall' = [publishCall EXCEPT ![i] =
                     [@ EXCEPT !.pc = "updateResult", !.result = r,
                               !.content = BranchContent(@, p, r),
                               !.connection = IF StoresNewCookies(r) THEN c ELSE @]]
               /\ mediaRows' = IF StoresNewCookies(r)
                               THEN [mediaRows EXCEPT ![<<ContentProject, p>>] = c]
                               ELSE mediaRows
  /\ UNCHANGED <<contentRow, publishLog, requests>>

\* content fields set after updateStatus when result.success
ResultContent(c, p, r) ==
  IF p = "wordpress" THEN [c EXCEPT !.wordpressPostId = r.postId]
  ELSE [c EXCEPT !.mediumPostId = r.postId]

\* the block after the platform branches: publishLog.status, updateStatus,
\* contentRepository.save(content), publishLogRepository.save(publishLog)
PublishUpdateResult ==
  /\ UNCHANGED nonSvVars
  /\ \E i \in PublishSlots :
       /\ publishCall[i].pc = "updateResult"
       /\ LET r == publishCall[i].result
              p == publishCall[i].platform
          IN IF r.success
             THEN /\ contentRow' = ResultContent(publishCall[i].content, p, r)
                  /\ publishLog' = [publishLog EXCEPT ![i] = "SUCCESS"]
             ELSE /\ contentRow' = [contentRow EXCEPT !.status = "FAILED"]
                  /\ publishLog' = [publishLog EXCEPT ![i] = "FAILED"]
       /\ publishCall' = [publishCall EXCEPT ![i] = Ended(@, "returned")]
  /\ UNCHANGED <<mediaRows, requests>>

\* an awaited repository or service call of publish rejects after the log was
\* saved: the call ends with the exception (publish has no try / catch)
PublishThrows ==
  /\ UNCHANGED nonSvVars
  /\ \E i \in PublishSlots :
       /\ publishCall[i].pc \in {"automation", "updateResult"}
       /\ publishCall' = [publishCall EXCEPT ![i] = Ended(@, "thrown")]
  /\ UNCHANGED <<contentRow, mediaRows, publishLog, requests>>

\* bodies of createOrUpdate requests: 0 is a field the request leaves out
NoFields == [apiUrl |-> 0, password |-> 0, accessToken |-> 0, refreshToken |-> 0]

CreateDtos ==
  { NoFields, [NoFields EXCEPT !.password = 1],
    [NoFields EXCEPT !.accessToken = CapturedCookies],
    [NoFields EXCEPT !.refreshToken = 1],
    [NoFields EXCEPT !.apiUrl = 1, !.password = 1] }

\* const credentialsChanged = (apiUrl && apiUrl !== connection.apiUrl) || ...
CredentialsChanged(dto, row) ==
  \/ dto.apiUrl # 0 /\ dto.apiUrl # row.apiUrl
  \/ dto.password # 0 /\ dto.password # row.password
  \/ dto.accessToken # 0 /\ dto.accessToken # row.accessToken

\* connection.x = x || connection.x
OrElse(x, y) == IF x # 0 THEN x ELSE y

\* MediaService.createOrUpdate
CreateOrUpdate ==
  /\ UNCHANGED nonSvVars
  /\ requests < MaxRequests
  /\ \E userId \in Users, k \in RowKeys, dto \in CreateDtos :
       /\ VerifyProjectOwnership(k[1], userId)
       /\ LET row == mediaRows[k]
          IN IF row.exists
             THEN /\ row.userId = userId
                  /\ mediaRows' = [mediaRows EXCEPT ![k] =
                       [row EXCEPT !.apiUrl = OrElse(dto.apiUrl, @),
                                   !.password = OrElse(dto.password, @),
                                   !.accessToken = OrElse(dto.accessToken, @),
                                   !.refreshToken = OrElse(dto.refreshToken, @),
                                   !.status = IF CredentialsChanged(dto, row)
                                              THEN "DISCONNECTED" ELSE @]]
             ELSE mediaRows' = [mediaRows EXCEPT ![k] =
                    [exists |-> TRUE, projectId |-> k[1], userId |-> userId,
                     status |-> "DISCONNECTED",
                     accessToken |-> dto.accessToken, password |-> dto.password,
                     refreshToken |-> dto.refreshToken, apiUrl |-> dto.apiUrl]]
  /\ requests' = requests + 1
  /\ UNCHANGED <<contentRow, publishLog, publishCall>>

\* MediaService.testConnection: status = result.success ? CONNECTED : ERROR
TestStoredConnection ==
  /\ UNCHANGED nonSvVars
  /\ requests < MaxRequests
  /\ \E userId \in Users, k \in RowKeys, success \in BOOLEAN :
       /\ mediaRows[k].exists /\ mediaRows[k].userId = userId
       /\ mediaRows' = [mediaRows EXCEPT ![k].status =
                          IF success THEN "CONNECTED" ELSE "ERROR"]
  /\ requests' = requests + 1
  /\ UNCHANGED <<contentRow, publishLog, publishCall>>

\* MediaService.updateCookies(projectId, platform, cookies, accountInfo, userId)
UpdateCookies ==
  /\ UNCHANGED nonSvVars
  /\ requests < MaxRequests
  /\ \E userId \in Users, k \in RowKeys :
       /\ k[2] \in Platforms
       /\ VerifyProjectOwnership(k[1], userId)
       /\ mediaRows' = [mediaRows EXCEPT ![k] =
            IF @.exists
            THEN [@ EXCEPT !.accessToken = CapturedCookies, !.status = "CONNECTED"]
            ELSE [NoRow EXCEPT !.exists = TRUE, !.projectId = k[1],
                               !.userId = Owner(k[1]),
                               !.accessToken = CapturedCookies,
                               !.status = "CONNECTED"]]
  /\ requests' = requests + 1
  /\ UNCHANGED <<contentRow, publishLog, publishCall>>

NextService ==
  \/ PublishBegin \/ PublishAutomation
  \/ PublishUpdateResult \/ PublishThrows
  \/ CreateOrUpdate \/ TestStoredConnection \/ UpdateCookies

(* --------------- EncryptionTransformer: encrypt, decrypt --------------- *)
\* strings are sequences of characters; <<>> is null, undefined or ''
NoKey == "null"

EncryptedColumns == {"password", "accessToken"}

\* characters of a value handed to the transformer
PlainChars == {"a", ":"}

RECURSIVE Texts(_)
Texts(n) ==
  IF n = 0 THEN {<<>>}
  ELSE Texts(n - 1) \cup { Append(t, c) : t \in Texts(n - 1), c \in PlainChars }

\* crypto.randomBytes(IV_LENGTH).toString('base64')
Ivs == {"i", "j"}

\* cipher.update(plainText, 'utf8', 'base64'): one base64 character for each
\* character of the plain text; base64 has no ':'
CipherBody(t) == [k \in 1..Len(t) |-> IF t[k] = ":" THEN "C" ELSE "A"]

\* decipher.update(encrypted, 'base64', 'utf8')
PlainBody(b) == [k \in 1..Len(b) |-> IF b[k] = "C" THEN ":" ELSE "a"]

\* encrypt(plainText): `${iv}:${authTag}:${encrypted}`; the plain text itself
\* when there is no key
Encrypt(plainText, key, iv) ==
  IF plainText = <<>> THEN <<>>
  ELSE IF key = NoKey THEN plainText
  ELSE <<iv, ":", "t", ":">> \o CipherBody(plainText)

\* String.prototype.split(':')
RECURSIVE SplitColon(_)
SplitColon(s) ==
  IF ~Includes(s, ":") THEN <<s>>
  ELSE <<SubSeq(s, 1, IndexOf(s, ":") - 1)>>
         \o SplitColon(SubSeq(s, IndexOf(s, ":") + 1, Len(s)))

\* createDecipheriv, setAuthTag, update and final do not throw: the three
\* parts are an iv, the authentication tag and base64 text
Deciphers(parts) ==
  /\ Len(parts[1]) = 1 /\ parts[1][1] \in Ivs
  /\ parts[2] = <<"t">>
  /\ \A k \in 1..Len(parts[3]) : parts[3][k] \in {"A", "C"}

\* decrypt(encryptedText)
Decrypt(encryptedText, key) ==
  IF encryptedText = <<>> THEN <<>>
  ELSE IF ~Includes(encryptedText, ":") THEN encryptedText
  ELSE IF key = NoKey THEN encryptedText
  ELSE LET parts == SplitColon(encryptedText)
       IN IF Len(parts) < 3 \/ parts[1] = <<>> \/ parts[2] = <<>> \/ parts[3] = <<>>
          THEN encryptedText
          ELSE IF Deciphers(parts) THEN PlainBody(parts[3]) ELSE encryptedText

\* state before the module body of encryption.util has run
InitEncryption ==
  /\ encryptionKey = "uninitialized" /\ columnName = "none"
  /\ column = <<>> /\ assigned = <<>> /\ loaded = <<>>

\* initEncryptionKey(): the key is derived from ENCRYPTION_KEY when it is set
InitEncryptionKey ==
  /\ UNCHANGED nonEncVars
  /\ encryptionKey = "uninitialized"
  /\ encryptionKey' \in {NoKey, "key"}
  /\ UNCHANGED <<columnName, column, assigned, loaded>>

\* repository.save of a row whose field c was assigned: EncryptionTransformer.to
SaveColumn ==
  /\ UNCHANGED nonEncVars
  /\ encryptionKey # "uninitialized"
  /\ \E c \in EncryptedColumns, t \in Texts(MaxText), iv \in Ivs :
       /\ columnName' = c /\ assigned' = t
       /\ column' = Encrypt(t, encryptionKey, iv)
  /\ UNCHANGED <<encryptionKey, loaded>>

\* repository.findOne of the row: EncryptionTransformer.from on the column
LoadRow ==
  /\ UNCHANGED nonEncVars
  /\ encryptionKey # "uninitialized"
  /\ loaded' = Decrypt(column, encryptionKey)
  /\ UNCHANGED <<encryptionKey, columnName, column, assigned>>

NextEncryption == InitEncryptionKey \/ SaveColumn \/ LoadRow

(* ------------- publishToTistory: choosing the blog to write on --------- *)
\* names of blogs; <<>> is no blog
BlogNames == {<<"a">>, <<"a", "b">>, <<"c">>}

NoBlog == <<>>

\* https://<name>.tistory.com, with "h" for the scheme and "t" for the rest
BlogUrlOf(name) == <<"h", "/">> \o name \o <<".", "t">>

LinkLists == UNION {[1..n -> BlogNames] : n \in 0..MaxLinks}

\* String.prototype.includes(searchString)
IsSubstring(sub, str) ==
  \E i \in 0..(Len(str) - Len(sub)) : SubSeq(str, i + 1, i + Len(sub)) = sub

\* the loop over writeLinks after the first visit of www.tistory.com and the
\* block after it: the first link whose blog name occurs in blogUrl,
\* otherwise the blog of the first link, otherwise the name kept so far
SelectBlog(name, url, links) ==
  IF \E k \in 1..Len(links) : IsSubstring(links[k], url)
  THEN links[CHOOSE k \in 1..Len(links) :
               /\ IsSubstring(links[k], url)
               /\ \A m \in 1..(k - 1) : ~IsSubstring(links[m], url)]
  ELSE IF Len(links) > 0 THEN links[1] ELSE name

\* the loop over writeLinks after the re-login
RECURSIVE SelectBlogAfterRelogin(_, _, _, _)
SelectBlogAfterRelogin(actual, name, url, links) ==
  IF links = <<>> THEN actual
  ELSE IF IsSubstring(Head(links), url) THEN Head(links)
  ELSE SelectBlogAfterRelogin(
         IF actual = NoBlog \/ actual = name THEN Head(links) ELSE actual,
         name, url, Tail(links))

InitTistory ==
  /\ tiPc = "idle" /\ blogName = NoBlog /\ writeLinks = <<>>
  /\ actualBlogName = NoBlog /\ writeUrlBlog = NoBlog /\ authoringBlog = NoBlog
  /\ submittedOn = NoBlog /\ postUrlBlog = NoBlog

\* publishToTistory(cookies, blogUrl, ...) up to page.goto('https://www.tistory.com/');
\* the account of the stored session runs the blogs of writeLinks
TistoryBegin ==
  /\ UNCHANGED nonTiVars
  /\ tiPc = "idle"
  /\ \E name \in BlogNames, links \in LinkLists :
       /\ blogName' = name /\ writeLinks' = links /\ actualBlogName' = name
  /\ tiPc' = "main"
  /\ writeUrlBlog' = NoBlog /\ authoringBlog' = NoBlog
  /\ submittedOn' = NoBlog /\ postUrlBlog' = NoBlog

\* where a navigation to an authoring URL ends: the editor, a login page,
\* the blog home, an error page
Arrivals == {"editor", "login", "home", "error"}

\* the account layer (when its button is found and nothing throws), then
\* page.goto(writeUrl) and the checks on page.url()
TistoryGotoWrite ==
  /\ UNCHANGED nonTiVars
  /\ tiPc = "main"
  /\ \E layerRead \in BOOLEAN, arrival \in Arrivals :
       LET actual == IF layerRead
                     THEN SelectBlog(blogName, BlogUrlOf(blogName), writeLinks)
                     ELSE actualBlogName
       IN /\ actualBlogName' = actual
          /\ writeUrlBlog' = actual /\ authoringBlog' = actual
          /\ tiPc' = CASE arrival = "editor" -> "editor"
                       [] arrival = "login"  -> "relogin"
                       [] arrival = "home"   -> "retry"
                       [] OTHER              -> "done"
  /\ UNCHANGED <<blogName, writeLinks, submittedOn, postUrlBlog>>

\* performTistoryLogin; on success the account layer again and
\* page.goto(updatedWriteUrl)
TistoryRelogin ==
  /\ UNCHANGED nonTiVars
  /\ tiPc = "relogin"
  /\ \E reAuth \in BOOLEAN, layerRead \in BOOLEAN, arrival \in Arrivals :
       IF ~reAuth
       THEN tiPc' = "done" /\ UNCHANGED <<actualBlogName, authoringBlog>>
       ELSE LET actual == IF layerRead
                          THEN SelectBlogAfterRelogin(actualBlogName, blogName,
                                                      BlogUrlOf(blogName), writeLinks)
                          ELSE actualBlogName
            IN /\ actualBlogName' = actual /\ authoringBlog' = actual
               /\ tiPc' = CASE arrival = "editor" -> "editor"
                            [] arrival = "error"  -> "done"
                            [] OTHER              -> "retry"
  /\ UNCHANGED <<blogName, writeLinks, writeUrlBlog, submittedOn, postUrlBlog>>

\* not on the authoring page: page.goto(writeUrl) once more
TistoryRetry ==
  /\ UNCHANGED nonTiVars
  /\ tiPc = "retry"
  /\ authoringBlog' = writeUrlBlog
  /\ \E arrival \in Arrivals : tiPc' = IF arrival = "editor" THEN "editor" ELSE "done"
  /\ UNCHANGED <<blogName, writeLinks, actualBlogName, writeUrlBlog, submittedOn,
                 postUrlBlog>>

\* title, body and the publish control on the page; postUrl = postId && blogName
\* ? `https://${blogName}.tistory.com/${postId}` : finalUrl
TistorySubmit ==
  /\ UNCHANGED nonTiVars
  /\ tiPc = "editor"
  /\ submittedOn' = authoringBlog
  /\ \E hasPostId \in BOOLEAN :
       postUrlBlog' = IF hasPostId THEN blogName ELSE authoringBlog
  /\ tiPc' = "done"
  /\ UNCHANGED <<blogName, writeLinks, actualBlogName, writeUrlBlog, authoringBlog>>

\* the call has returned
TistoryReturned ==
  /\ UNCHANGED nonTiVars
  /\ tiPc = "done" /\ tiPc' = "idle"
  /\ UNCHANGED <<blogName, writeLinks, actualBlogName, writeUrlBlog, authoringBlog,
                 submittedOn, postUrlBlog>>

NextTistory ==
  \/ TistoryBegin \/ TistoryGotoWrite \/ TistoryRelogin \/ TistoryRetry
  \/ TistorySubmit \/ TistoryReturned

(* -------------------------- specifications ----------------------------- *)
Init == InitPublish /\ InitRemote /\ InitCookies /\ InitBrowsers
        /\ InitRecords /\ InitHealth /\ InitQueue /\ InitSessions
  /\ InitService /\ InitEncryption /\ InitTistory

SpecPublish == Init /\ [][NextPublish]_vars

SpecRemote == Init /\ [][NextRemote]_vars

SpecCookies == Init /\ [][NextCookies]_vars

SpecBrowsers == Init /\ [][NextBrowsers]_vars

SpecRecords == Init /\ [][NextRecords]_vars

SpecSessions == Init /\ [][NextSessions]_vars

\* the timer keeps firing, time passes, and a pending await is resumed
SpecSessionsFair ==
  /\ Init /\ [][NextSessions]_vars
  /\ WF_vars(Tick) /\ WF_vars(SweepStarts) /\ WF_vars(SweepResumes)
  /\ WF_vars(CloseSessionResumes) /\ WF_vars(SaveCookiesJudges)
  /\ WF_vars(SaveCookiesCloses)

SpecQueue == Init /\ [][NextQueue]_vars

SpecHealth == Init /\ [][NextHealth]_vars

SpecService == Init /\ [][NextService]_vars

SpecEncryption == Init /\ [][NextEncryption]_vars

SpecTistory == Init /\ [][NextTistory]_vars

Next ==
  \/ NextPublish \/ NextRemote \/ NextCookies \/ NextBrowsers \/ NextRecords
  \/ NextHealth \/ NextQueue \/ NextSessions \/ NextService
  \/ NextEncryption \/ NextTistory

Spec == Init /\ [][Next]_vars

(* ------------------------------ claims --------------------------------- *)
Unconfirmed(f) == f \in {"", "unreadable", "write", "newpost"}

TerminalLoginStates == ChallengeStates \cup {"CREDENTIAL_REJECTED"}

\* C1: on every exit path of a publish call the browser and the context of
\* the call are closed when it returns, and between calls as many browsers
\* and contexts were closed as were opened.
C1_ReleasedOnEveryExit ==
  /\ pc = "done" => browser # "open" /\ context # "open"
  /\ pc = "idle" => /\ browsersOpened = browsersClosed
                    /\ contextsOpened = contextsClosed

\* C2: the cookies stored in a connection of a project were captured from a
\* remote session started by the owner of that project.
C2_CaptureStaysWithTenant ==
  \A k \in Projects \X Platforms :
    connections[k].exists => connections[k].tokenFrom = Owner(k[1])

\* C3: one publish call makes at most one automatic re-login attempt (and
\* submits the credentials at most once), also when the authoring page still
\* redirects to login after the re-login.
C3_AtMostOneRelogin == reloginAttempts <= 1 /\ loginSubmits <= 1

\* C3 witness: a call that re-logged in once, navigated again, was again
\* sent to a login URL and returned.
C3_Witness ==
  /\ pc = "done" /\ reloginAttempts = 1 /\ loginState = "AUTHENTICATED"
  /\ writeNavsAfterRelogin >= 1 /\ IsLoginUrl(currentUrl)

\* C4: every result returned after the context was created carries the
\* context's current cookie jar as newCookies.
C4_ResultCarriesJar ==
  (pc = "done" /\ context # "none") => result.newCookies = ctxJar

\* C5: when the submission outcome is unconfirmed (still on the authoring
\* URL, or URL unreadable, and no post id read from the URL) the result is
\* success = false.
C5_UnconfirmedIsFailure ==
  (pc = "done" /\ finalUrl # "none" /\ Unconfirmed(finalUrl) /\ ~postIdFromUrl)
    => ~result.success

\* C6: when no title selector resolves, the call returns element-not-found
\* and neither types content nor activates the submission control.
C6_TitleNotFoundStops ==
  titleResolved = "no" =>
    /\ pc = "done" /\ result.error = "ELEMENT_NOT_FOUND"
    /\ ~typed /\ ~submitted

C8_ReloginOnceAndRefreshed ==
  (pc = "done" /\ sessionExpired /\ credentials /\ loginState = "AUTHENTICATED") =>
    /\ reloginAttempts = 1
    /\ writeNavsAfterRelogin = 1
    /\ result.newCookies = ctxJar
    /\ result.newCookies # cookies

\* C9: every result with success = true carries a non-empty postUrl.
C9_SuccessHasPostUrl ==
  (pc = "done" /\ result.success) => result.postUrl \notin {"empty", "absent"}

C11_NoEmptyJar ==
  /\ addCookiesCalled => Len(cookieArray) > 0
  /\ tokenStatus = "CONNECTED" =>
       Len(ParseCookieString(accessToken, PlatformDomain(tokenPlatform))) > 0

\* C12: when the stored string is a serialization of a valid jar (JSON array
\* or flat name=value string), the jar parsed from it and injected has the
\* same names, values and domains, in the same order.
C12_RoundTrip ==
  (addCookiesCalled /\ jarKnown) => cookieArray = capturedJar

\* C13: an operation that submits credentials or injects or extracts cookies
\* never does so in a context of the shared long-lived browser.
C13_SharedBrowserProbeOnly ==
  \A i \in OpSlots :
    running[i].step \notin {"idle", "context"} => running[i].browser = "fresh"

\* the largest pool that MaxOps simultaneous requests can overrun
PoolSize == MaxOps - 1

PublishBrowsersOpen(op) == Cardinality({i \in OpSlots : running[i].op = op})

\* C14: for each platform the number of publish browser processes open at
\* the same time never exceeds the pool size: a request arriving while the
\* pool is full does not launch another browser.
C14_PoolBounded ==
  \A op \in {"publishToNaverBlog", "publishToTistory"} :
    PublishBrowsersOpen(op) <= PoolSize

\* C15: after any interleaving of createOrUpdate and updateCookies calls
\* there is at most one connection row per (project, platform).
C15_OneRecordPerKey ==
  \A r1, r2 \in mediaConnections : r1.key = r2.key => r1.id = r2.id

\* C15 witness: two calls for the same key both found no row; one inserted
\* it and the other's insert was rejected.
C15_Witness ==
  \E i, j \in WriterSlots :
    /\ i # j /\ writers[i].key = writers[j].key
    /\ writers[i].outcome = "saved" /\ writers[j].outcome = "rejected"
    /\ Cardinality({r \in mediaConnections : r.key = writers[i].key}) = 1

\* C16: after every verification attempt and every publish attempt against
\* the connection, the record's lastCheckedAt is the time of that attempt and
\* its lastError is the attempt's error (none on success).
C16_AttemptRecorded ==
  lastAttempt.kind \in {"test", "publish"} =>
    /\ connection.lastCheckedAt = attempts
    /\ connection.lastError = lastAttempt.error

\* C17: a publish operation is run again automatically only after a run that
\* failed with an infrastructure error, and at most once: a job has at most
\* two runs, and every run but the last ended in an infrastructure error.
C17_RetryOnlyInfrastructureOnce ==
  /\ Len(jobOutcomes) <= 2
  /\ \A k \in 1..(Len(jobOutcomes) - 1) : jobOutcomes[k].error = "INFRASTRUCTURE"

\* C18: a capture that goes on to close the session and return success never
\* judged the session logged in while its page was on a login or challenge
\* page; a capture returns not-completed there and leaves the session open.
C18_NoCaptureOnLoginPage ==
  \A i \in CallerSlots : callers[i].step # "infoAtLogin"

C20_CloseTolerant ==
  /\ [](~unhandledRejection)
  /\ [][ /\ \A i \in CallerSlots :
              (callers[i].step \in CloseSteps /\ callers'[i] = IdleCaller)
                => ~liveSession'.registered
         /\ (sweeper \in CloseSteps /\ sweeper' = "idle") => ~liveSession'.registered
         /\ (liveSession.context = "closed" /\ ~Quiet) => liveSession'.context = "closed"
         /\ (liveSession.browser = "closed" /\ ~Quiet) => liveSession'.browser = "closed"
       ]_vars
  /\ \A i \in CallerSlots : (callers[i] # IdleCaller) ~> (callers[i] = IdleCaller)

\* C20 witness: a close resumes after another call already closed the
\* context, and its context.close() rejected.
C20_Witness ==
  \E i \in CallerSlots :
    /\ callers[i].step = "contextThrew"
    /\ liveSession.context = "closed"


\* the call of slot i has just got the result of its platform call
GotResult(i) ==
  publishCall[i].pc = "automation" /\ publishCall'[i].pc = "updateResult"

Serves(prj, u, p) ==
  \E k \in RowKeys :
    /\ k = <<prj, p>> /\ mediaRows[k].exists
    /\ mediaRows[k].projectId = prj /\ mediaRows[k].userId = u
    /\ mediaRows[k].status = "CONNECTED" /\ mediaRows[k].accessToken # 0

StoredCredentials(row) == <<row.password, row.accessToken, row.refreshToken>>

\* C26: a createOrUpdate that changes a stored credential of an existing
\* connection leaves it DISCONNECTED, one that changes none leaves the status
\* as it was, and only testConnection or a cookie update makes a connection
\* CONNECTED again (until then publish refuses it, C23).
C26_ChangedCredentialDisconnects ==
  [][\A k \in RowKeys :
       /\ CreateOrUpdate /\ mediaRows[k].exists /\ mediaRows'[k] # mediaRows[k]
          => IF StoredCredentials(mediaRows'[k]) # StoredCredentials(mediaRows[k])
             THEN mediaRows'[k].status = "DISCONNECTED"
             ELSE mediaRows'[k].status = mediaRows[k].status
       /\ mediaRows[k].exists /\ mediaRows[k].status # "CONNECTED"
           /\ mediaRows'[k].status = "CONNECTED"
          => TestStoredConnection \/ UpdateCookies]_vars

\* C27: a publish log of a call that ended is SUCCESS or FAILED, never
\* PENDING, also when the call ended with an exception, and it is SUCCESS
\* exactly when the platform publish reported success.
C27_LogSettled ==
  \A i \in PublishSlots :
    publishCall[i].pc \in {"returned", "thrown"} /\ publishLog[i] # "none"
    => /\ publishLog[i] \in {"SUCCESS", "FAILED"}
       /\ publishLog[i] = "SUCCESS" <=> publishCall[i].result.success

\* C28: once every publish of the content item has ended, its status is
\* PUBLISHED if at least one platform publish succeeded, whatever the order
\* of the results.
C28_PublishedIfAnySucceeded ==
  /\ \A i \in PublishSlots : publishCall[i].pc \in {"idle", "returned", "thrown"}
  /\ \E i \in PublishSlots : publishLog[i] = "SUCCESS"
  => contentRow.status = "PUBLISHED"

\* the content field that holds the post id of platform p
PostIdField(p) ==
  CASE p = "wordpress" -> "wordpressPostId"
    [] p = "medium"    -> "mediumPostId"
    [] p = "naver"     -> "naverBlogPostId"
    [] OTHER           -> "tistoryPostId"

\* C29: a successful publish to platform P changes no post-id field of the
\* content other than the one that belongs to P.
C29_OnlyOwnPostIdField ==
  [][\A i \in PublishSlots :
       /\ publishCall[i].pc = "updateResult" /\ publishCall'[i].pc = "returned"
       /\ publishCall[i].result.success
       => \A q \in PublishPlatforms \ {publishCall[i].platform} :
            contentRow'[PostIdField(q)] = contentRow[PostIdField(q)]]_vars

\* C22: a non-empty password or cookie artifact is never in the table as its
\* plain text: what the column holds differs from the value saved and
\* decrypts back to it.
C22_NeverPlaintextAtRest ==
  columnName \in EncryptedColumns /\ assigned # <<>> =>
    /\ column # assigned
    /\ Decrypt(column, encryptionKey) = assigned

\* C24: a startSession that fails after the remote browser was connected
\* closes that browser and registers no session: a failed start leaves no
\* open browser behind.
C24_FailedStartReleases ==
  [][StartSession /\ ~liveSession'.registered => liveSession'.browser # "open"]_vars

\* C25: whichever of login test, publish write-back, direct save and remote
\* capture stored it last, the cookie string of a connection is read back
\* as the captured cookies by both readers: parseCookieString at publish
\* time and the site that gets the string as a Cookie header from
\* testConnectionWithCookies.
C25_EveryReaderAccepts ==
  /\ jarKnown /\ tokenStatus = "CONNECTED" =>
       SentCookies(ParseCookieString(accessToken, PlatformDomain(tokenPlatform)))
         = SentCookies(capturedJar)
  /\ jarKnown /\ cookieHeader # <<>> =>
       HeaderCookies(cookieHeader) = SentCookies(capturedJar)

\* C30: publishToTistory sends the page to the authoring page of no blog
\* other than the one named by blogUrl, submits the content there, and the
\* postUrl it returns names the blog on which the post was submitted.
C30_OnlyTheNamedBlog ==
  /\ authoringBlog \in {NoBlog, blogName}
  /\ submittedOn \in {NoBlog, blogName}
  /\ postUrlBlog = submittedOn
====
